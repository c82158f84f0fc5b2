----------------------------- MODULE RouteProofs -----------------------------
(***************************************************************************)
(* Theorems about Route, for every fleet, every command line and every     *)
(* answer of the network and image services.                               *)
(***************************************************************************)
EXTENDS Route, GrammarProofs

Early == {"file", "options", "split", "clients"}

\* The set-up comes before the bastion and the instances are looked up.
LEMMA SetUpIsEarly ==
  LineNext => phase \in Early /\ phase' \in Early \cup {"ready", "0", "1"}
<1> SUFFICES ASSUME LineNext
             PROVE  phase \in Early /\ phase' \in Early \cup {"ready", "0", "1"}
  OBVIOUS
<1>1. CASE ReadOptionFile  BY <1>1 DEF ReadOptionFile, Early
<1>2. CASE RefuseOptionFile  BY <1>2 DEF RefuseOptionFile, Exit, Early
<1>3. CASE Parse
  <2>1. CASE HelpOrVersion  BY <2>1 DEF HelpOrVersion, Option, Exit, Early
  <2>2. CASE RefuseOption  BY <2>2 DEF RefuseOption, Option, Exit, Early
  <2>3. CASE TurnOn  BY <2>3, Zenon DEF TurnOn, Option, Accept, Early
  <2>4. CASE SetMode  BY <2>4, Zenon DEF SetMode, Option, Accept, Early
  <2>5. CASE SetText  BY <2>5, Zenon DEF SetText, Option, Accept, Early
  <2>6. CASE SetNumber  BY <2>6, Zenon DEF SetNumber, Option, Accept, Early
  <2>7. CASE RefuseNumber  BY <2>7 DEF RefuseNumber, Option, Exit, Early
  <2>8. CASE AddHost  BY <2>8, Zenon DEF AddHost, Option, Accept, Early
  <2>9. CASE SetBastion  BY <2>9, Zenon DEF SetBastion, Option, Accept, Early
  <2>10. CASE RefuseBastion  BY <2>10 DEF RefuseBastion, Option, Exit, Early
  <2>11. CASE AddMethod  BY <2>11, Zenon DEF AddMethod, Option, Accept, Early
  <2>12. CASE EndOptions  BY <2>12 DEF EndOptions, Option, Early
  <2>13. CASE RefuseClash  BY <2>13 DEF RefuseClash, Option, Exit, Early
  <2> QED  BY <1>3, <2>1, <2>2, <2>3, <2>4, <2>5, <2>6, <2>7, <2>8, <2>9, <2>10, <2>11, <2>12,
              <2>13 DEF Parse
<1>4. CASE SplitArgs  BY <1>4 DEF SplitArgs, Early
<1>5. CASE RefuseArgs  BY <1>5 DEF RefuseArgs, Exit, Early
<1>6. CASE SetupFails  BY <1>6 DEF SetupFails, Exit, Early
<1>7. CASE MakeClients  BY <1>7 DEF MakeClients, Early
<1> QED  BY <1>1, <1>2, <1>3, <1>4, <1>5, <1>6, <1>7 DEF LineNext

-----------------------------------------------------------------------------
(***************************************************************************)
(* The inductive invariant.  A lookup that was made stays what it was, so  *)
(* that a search that is over has a verdict, Known or Hidden, that no      *)
(* later search can contradict; the context of the filter and the job hold *)
(* that verdict.                                                           *)
(***************************************************************************)

Types ==
  /\ net \in [Networks -> {Nil, "public", "private", "error"}]
  /\ next \in 1 .. Len(Instances) + 1
  /\ queue \in Seq(Networks)
  /\ public \in BOOLEAN
  /\ queue # <<>> => ~public
  /\ listed \in [Hosts -> BOOLEAN]
  /\ DOMAIN job = Hosts
  /\ phase \in {"filter", "call", "build", "print"} => next \in DOMAIN Instances

\* Nothing was built before the bastion was looked up.
NoneYet == phase \in Early \cup {"ready"} => \A i \in Hosts : job[i].way = ""

\* All networks of i were looked up and none is public.
Hidden(i) == \A n \in DOMAIN NetworksOf[i] : net[NetworksOf[i][n]] \in {"private", "error"}

\* What the filter saw of i is what its networks are.
Settled(i) == IF listed[i] THEN Known(i) ELSE Hidden(i)

\* A search of the current instance: its networks that are not in the queue were looked
\* up, and the last one was public or none was.
Searched ==
  /\ public => Known(Current)
  /\ \A m \in DOMAIN queue : \E n \in DOMAIN NetworksOf[Current] : NetworksOf[Current][n] = queue[m]
  /\ ~public => \A n \in DOMAIN NetworksOf[Current] :
                   \/ net[NetworksOf[Current][n]] \in {"private", "error"}
                   \/ \E m \in DOMAIN queue : queue[m] = NetworksOf[Current][n]

Searching == phase \in {"filter", "build"} => Searched

\* The instances the loop has passed, and the current one once its context is complete.
Evaluated ==
  \A n \in DOMAIN Instances :
    n < next \/ (n = next /\ phase \in {"call", "build", "print"}) => Settled(Instances[n])

\* A job was made by the verdict that the filter saw.
Fits(i) ==
  job[i].way # "" =>
    /\ Settled(i)
    /\ job[i].way = "direct" => listed[i] /\ ~Forced
    /\ job[i].way = "bastion" => /\ listed[i] => Forced
                                 /\ job[i].bastion = "" => listed[i]
    /\ job[i].way = "none" => ~listed[i]
    /\ job[i].way = "unopened" => HasInput /\ (listed[i] \/ config.bastionAddress # "")

RouteInv == Types /\ NoneYet /\ Searching /\ Evaluated /\ \A i \in Hosts : Fits(i)

-----------------------------------------------------------------------------

\* Every current instance is one of the fleet, in networks that can be looked up.
LEMMA CurrentIsHost ==
  ASSUME next \in DOMAIN Instances
  PROVE  Current \in Hosts /\ NetworksOf[Current] \in Seq(Networks)
BY RouteAssumption DEF Current, Hosts

\* The networks of an instance of the fleet can be looked up.
LEMMA NetworksOfHosts ==
  \A i \in Hosts : NetworksOf[i] \in Seq(Networks)
BY RouteAssumption DEF Hosts

\* A result that is in the cache stays there (NetCache.Get of FetchOnce).
LEMMA ResultsStay ==
  ASSUME Types, NEW n \in Networks, NEW r, NetworkIs(n, r)
  PROVE  \A k \in Networks : net[k] # Nil => net'[k] = net[k]
BY DEF Types, NetworkIs

\* So what is known of an instance stays known.
LEMMA VerdictsStay ==
  ASSUME Types, \A k \in Networks : net[k] # Nil => net'[k] = net[k], NEW i \in Hosts
  PROVE  (Known(i) => Known(i)') /\ (Hidden(i) => Hidden(i)')
<1>1. \A n \in DOMAIN NetworksOf[i] : NetworksOf[i][n] \in Networks
  BY NetworksOfHosts
<1>2. Nil \notin {"public", "private", "error"}
  BY RouteAssumption
<1> QED  BY <1>1, <1>2 DEF Known, Hidden

\* No instance is both.
LEMMA OneVerdict ==
  ASSUME NEW i, Known(i)
  PROVE  ~Hidden(i)
BY DEF Known, Hidden

\* A search that is over has the verdict.
LEMMA SearchFinds ==
  ASSUME Types, Searched, Answered
  PROVE  IF public THEN Known(Current) ELSE Hidden(Current)
<1>1. DOMAIN queue = {}
  BY DEF Types, Answered
<1> QED  BY <1>1 DEF Searched, Hidden

-----------------------------------------------------------------------------

LEMMA InitInv ==
  Init => RouteInv
<1> SUFFICES ASSUME Init PROVE RouteInv
  OBVIOUS
<1>1. phase = "file" /\ next = 1
  BY DEF Init, LineInit
<1>2. Types
  <2>1. /\ net = [n \in Networks |-> Nil] /\ queue = <<>> /\ public = FALSE
        /\ listed = [i \in Hosts |-> FALSE] /\ job = [i \in Hosts |-> NoJob]
    BY DEF Init
  <2>2. next \in 1 .. Len(Instances) + 1
    BY <1>1, RouteAssumption
  <2>3. net \in [Networks -> {Nil, "public", "private", "error"}] /\ listed \in [Hosts -> BOOLEAN]
    BY <2>1
  <2>4. DOMAIN job = Hosts
    BY <2>1, Zenon
  <2>5. queue = <<>> /\ queue \in Seq(Networks)
    BY <2>1
  <2>6. public = FALSE
    BY <2>1
  <2> QED  BY <1>1, <2>2, <2>3, <2>4, <2>5, <2>6 DEF Types
<1>3. \A i \in Hosts : job[i].way = ""
  <2>1. job = [i \in Hosts |-> NoJob] /\ NoJob.way = ""
    BY DEF Init, NoJob
  <2> QED  BY <2>1, Zenon
<1>4. Evaluated
  BY <1>1, RouteAssumption DEF Evaluated
<1> QED  BY <1>1, <1>2, <1>3, <1>4 DEF RouteInv, NoneYet, Searching, Fits

\* Steps before, between and after the instances.
LEMMA PhaseStep ==
  ASSUME RouteInv,
         UNCHANGED <<net, next, queue, public, listed, job>>,
         phase' \notin {"filter", "call", "build", "print"},
         phase' \in Early \cup {"ready"} => phase \in Early \cup {"ready"},
         config' = config \/ phase \in Early \cup {"ready"}
  PROVE  RouteInv'
<1>1. Types' /\ NoneYet' /\ Searching' /\ Evaluated'
  BY DEF RouteInv, Types, NoneYet, Searching, Evaluated, Settled, Known, Hidden
<1>2. ASSUME NEW i \in Hosts PROVE Fits(i)'
  <2>1. CASE config' = config
    BY <2>1 DEF RouteInv, Fits, Settled, Known, Hidden, Forced
  <2>2. CASE phase \in Early \cup {"ready"}
    BY <2>2 DEF RouteInv, NoneYet, Fits
  <2> QED  BY <2>1, <2>2
<1> QED  BY <1>1, <1>2 DEF RouteInv

LEMMA StutterStep ==
  RouteInv /\ UNCHANGED vars => RouteInv'
<1> SUFFICES ASSUME RouteInv, UNCHANGED vars PROVE RouteInv'
  OBVIOUS
<1>1. UNCHANGED <<config, phase, net, next, queue, public, listed, job>>
  BY DEF vars, lineVars, caches
<1>2. \A i : Settled(i)' = Settled(i)
  BY <1>1 DEF Settled, Known, Hidden
<1>3. Types' /\ NoneYet' /\ Evaluated'
  BY <1>1, <1>2 DEF RouteInv, Types, NoneYet, Evaluated
<1>4. Searching'
  BY <1>1 DEF RouteInv, Searching, Searched, Known, Current
<1>5. \A i \in Hosts : Fits(i)'
  BY <1>1, <1>2 DEF RouteInv, Fits, Forced
<1> QED  BY <1>3, <1>4, <1>5 DEF RouteInv

LEMMA ReadInstanceStep ==
  RouteInv /\ ReadInstance => RouteInv'
<1> SUFFICES ASSUME RouteInv, ReadInstance PROVE RouteInv'
  OBVIOUS
<1>1. /\ next \in DOMAIN Instances
      /\ phase = "loop" /\ phase' = "filter"
      /\ queue' = NetworksOf[Current] /\ public' = FALSE
      /\ UNCHANGED <<net, next, listed, job, config>>
  BY RouteAssumption DEF ReadInstance, RouteInv, Types, At, Search, ConfigStays
<1>2. Types'
  BY <1>1, CurrentIsHost DEF RouteInv, Types
<1>3. Searching'
  <2>1. Current' = Current
    BY <1>1 DEF Current
  <2> QED  BY <1>1, <2>1 DEF Searching, Searched
<1>4. \A i : Settled(i)' = Settled(i)
  BY <1>1 DEF Settled, Known, Hidden
<1>5. Evaluated'
  BY <1>1, <1>4 DEF RouteInv, Evaluated
<1>6. NoneYet' /\ \A i \in Hosts : Fits(i)'
  BY <1>1, <1>4 DEF RouteInv, NoneYet, Early, Fits, Forced
<1> QED  BY <1>2, <1>3, <1>5, <1>6 DEF RouteInv

LEMMA AskNetworkStep ==
  RouteInv /\ AskNetwork => RouteInv'
<1> SUFFICES ASSUME RouteInv, AskNetwork PROVE RouteInv'
  OBVIOUS
<1> DEFINE Q == Head(queue)
<1>1. /\ phase \in {"filter", "call", "build"} /\ phase' = phase
      /\ queue # <<>> /\ ~public
      /\ UNCHANGED <<next, listed, job, config>>
      /\ next \in DOMAIN Instances
  BY DEF AskNetwork, ConfigStays, RouteInv, Types
<1>2. PICK r \in {"public", "private", "error"} :
        /\ NetworkIs(Q, r)
        /\ public' = (r = "public")
        /\ queue' = IF r = "public" THEN <<>> ELSE Tail(queue)
  BY DEF AskNetwork
<1>3. Q \in Networks /\ Q = queue[1] /\ queue \in Seq(Networks)
  BY <1>1 DEF RouteInv, Types
<1>4. \A k \in Networks : net[k] # Nil => net'[k] = net[k]
  BY <1>2, <1>3, ResultsStay DEF RouteInv
<1>5. net' \in [Networks -> {Nil, "public", "private", "error"}] /\ net'[Q] = r
  BY <1>2, <1>3 DEF RouteInv, Types, NetworkIs
<1>6. Types'
  BY <1>1, <1>2, <1>3, <1>5 DEF RouteInv, Types
<1>7. \A i \in Hosts : (Known(i) => Known(i)') /\ (Hidden(i) => Hidden(i)')
  BY <1>4, VerdictsStay DEF RouteInv
<1>8. \A i \in Hosts : Settled(i) => Settled(i)'
  BY <1>1, <1>7 DEF Settled
<1>9. Evaluated' /\ NoneYet' /\ \A i \in Hosts : Fits(i)'
  <2>1. Evaluated'
    BY <1>1, <1>8 DEF RouteInv, Evaluated, Hosts
  <2>2. NoneYet' /\ \A i \in Hosts : Fits(i)'
    BY <1>1, <1>8 DEF RouteInv, NoneYet, Fits, Forced
  <2> QED  BY <2>1, <2>2
<1>10. Searching'
  <2> SUFFICES ASSUME phase' \in {"filter", "build"} PROVE Searched'
    BY DEF Searching
  <2> DEFINE N == NetworksOf[Current]
  <2>1. Searched /\ Current' = Current
    BY <1>1 DEF RouteInv, Searching, Current
  <2>2. N \in Seq(Networks)
    BY <1>1, CurrentIsHost
  <2>3. PICK q \in DOMAIN N : N[q] = Q
    BY <1>1, <1>3, <2>1 DEF Searched
  <2>4. public' => Known(Current)'
    BY <1>2, <1>5, <2>1, <2>3 DEF Known
  <2>5. \A m \in DOMAIN queue' : m + 1 \in DOMAIN queue /\ queue'[m] = queue[m + 1]
    BY <1>1, <1>2, <1>3
  <2>6. \A m \in DOMAIN queue' : \E n \in DOMAIN N : N[n] = queue'[m]
    BY <2>1, <2>5 DEF Searched
  <2>7. ASSUME ~public', NEW n \in DOMAIN N
        PROVE  net'[N[n]] \in {"private", "error"} \/ \E m \in DOMAIN queue' : queue'[m] = N[n]
    <3>1. r \in {"private", "error"} /\ queue' = Tail(queue)
      BY <1>2, <2>7
    <3>2. CASE net[N[n]] \in {"private", "error"}
      BY <3>2, <1>4, <2>2, RouteAssumption
    <3>3. CASE \E m \in DOMAIN queue : queue[m] = N[n]
      <4>1. PICK m \in DOMAIN queue : queue[m] = N[n]
        BY <3>3
      <4>2. CASE m = 1
        BY <4>1, <4>2, <3>1, <1>3, <1>5
      <4>3. CASE m # 1
        <5>1. m - 1 \in DOMAIN Tail(queue) /\ Tail(queue)[m - 1] = queue[m]
          BY <4>3, <1>1, <1>3
        <5> QED  BY <5>1, <4>1, <3>1
      <4> QED  BY <4>2, <4>3
    <3> QED  BY <3>2, <3>3, <1>1, <2>1 DEF Searched
  <2> QED  BY <2>1, <2>4, <2>6, <2>7 DEF Searched
<1> QED  BY <1>6, <1>9, <1>10 DEF RouteInv

\* Where the loop goes with the current instance, once the context of the filter is
\* complete: to the next one, to the end, or on with a search of its own.
Moves ==
  \/ phase' = "loop" /\ next' = next + 1 /\ queue' = <<>> /\ public' = FALSE
  \/ phase' = "build" /\ next' = next /\ queue' = NetworksOf[Current] /\ public' = FALSE
  \/ phase' = "call" /\ next' = next /\ queue' \in Seq(Networks) /\ public' = FALSE
  \/ phase' \in {"print", "end"} /\ next' = next /\ queue' = <<>> /\ public' = FALSE
  \/ phase' = "1" /\ UNCHANGED <<next, queue, public>>

LEMMA MoveStep ==
  ASSUME RouteInv, Moves, next \in DOMAIN Instances, NEW c \in Hosts, c = Current,
         UNCHANGED net, DOMAIN job' = Hosts, listed' \in [Hosts -> BOOLEAN],
         \A i \in Hosts : Settled(i) => Settled(i)', Settled(c)',
         \A i \in Hosts : Fits(i)'
  PROVE  RouteInv'
<1>1. Instances \in Seq(Range(Instances)) /\ NetworksOf[Current] \in Seq(Networks)
  BY RouteAssumption, CurrentIsHost
<1>2. Types'
  <2>1. next' \in 1 .. Len(Instances) + 1
    BY <1>1 DEF Moves
  <2>2. queue' \in Seq(Networks) /\ public' \in BOOLEAN /\ (queue' # <<>> => ~public')
    <3>1. CASE queue' = <<>> /\ public' = FALSE
      <4>1. queue' \in Seq(Networks)
        BY <3>1
      <4>2. public' \in BOOLEAN
        BY <3>1
      <4> QED  BY <3>1, <4>1, <4>2
    <3>2. CASE queue' \in Seq(Networks) /\ public' = FALSE
      <4>1. public' \in BOOLEAN
        BY <3>2
      <4> QED  BY <3>2, <4>1
    <3>3. CASE UNCHANGED <<queue, public>>
      BY <3>3 DEF RouteInv, Types
    <3> QED  BY <1>1, <3>1, <3>2, <3>3 DEF Moves
  <2>3. phase' \in {"filter", "call", "build", "print"} => next' \in DOMAIN Instances
    BY DEF Moves
  <2> QED  BY <2>1, <2>2, <2>3 DEF RouteInv, Types
<1>3. NoneYet'
  BY DEF Moves, NoneYet, Early
<1>4. Searching'
  <2> SUFFICES ASSUME phase' \in {"filter", "build"} PROVE Searched'
    BY DEF Searching
  <2>1. queue' = NetworksOf[Current] /\ public' = FALSE /\ next' = next
    BY DEF Moves
  <2>2. Current' = Current
    BY <2>1 DEF Current
  <2> QED  BY <2>1, <2>2 DEF Searched
<1>5. Evaluated'
  <2> SUFFICES ASSUME NEW n \in DOMAIN Instances,
                      n < next' \/ (n = next' /\ phase' \in {"call", "build", "print"})
               PROVE  Settled(Instances[n])'
    BY DEF Evaluated
  <2>1. n \in Int /\ next \in Int
    BY <1>1
  <2>2. n < next \/ n = next
    BY <2>1 DEF Moves
  <2>3. CASE n < next
    BY <2>3 DEF RouteInv, Evaluated, Hosts
  <2>4. CASE n = next
    BY <2>4 DEF Current
  <2> QED  BY <2>2, <2>3, <2>4
<1> QED  BY <1>2, <1>3, <1>4, <1>5 DEF RouteInv

\* The context of the filter has the verdict of the search; if the instance was evaluated
\* before, it is the same.
LEMMA ContextHolds ==
  ASSUME RouteInv, ContextDone, UNCHANGED <<net, job, config>>, NEW c, c = Current
  PROVE  /\ next \in DOMAIN Instances /\ c \in Hosts
         /\ listed' \in [Hosts -> BOOLEAN]
         /\ \A i \in Hosts : Settled(i) => Settled(i)'
         /\ Settled(c)'
         /\ \A i \in Hosts : Fits(i)'
<1>1. /\ next \in DOMAIN Instances /\ Searched /\ Answered
      /\ listed' = [listed EXCEPT ![c] = public]
      /\ public \in BOOLEAN /\ listed \in [Hosts -> BOOLEAN]
  BY DEF ContextDone, At, RouteInv, Types, Searching
<1>2. c \in Hosts
  BY <1>1, CurrentIsHost
<1>3. IF public THEN Known(c) ELSE Hidden(c)
  BY <1>1, SearchFinds DEF RouteInv
<1>4. \A i : (Known(i) <=> Known(i)') /\ (Hidden(i) <=> Hidden(i)')
  BY DEF Known, Hidden
<1>5. listed' \in [Hosts -> BOOLEAN] /\ listed'[c] = public
  BY <1>1, <1>2
<1>6. \A i \in Hosts : i # c => listed'[i] = listed[i]
  BY <1>1
<1>7. IF listed'[c] THEN Known(c)' ELSE Hidden(c)'
  BY <1>3, <1>4, <1>5
<1>8. ASSUME NEW i \in Hosts, Settled(i) PROVE Settled(i)' /\ listed'[i] = listed[i]
  <2>1. CASE i # c
    <3>1. listed'[i] = listed[i]
      BY <2>1, <1>6
    <3> QED  BY <3>1, <1>4, <1>8 DEF Settled
  <2>2. CASE i = c
    <3>1. listed[i] <=> public
      BY <2>2, <1>3, <1>8, OneVerdict DEF Settled
    <3>2. listed'[i] = listed[i]
      BY <3>1, <2>2, <1>1, <1>2, <1>5
    <3> QED  BY <3>2, <1>4, <1>8 DEF Settled
  <2> QED  BY <2>1, <2>2
<1>9. Settled(c)'
  BY <1>1, <1>2, <1>5, <1>7 DEF Settled
<1>10. ASSUME NEW i \in Hosts PROVE Fits(i)'
  <2>1. Fits(i) /\ (Settled(i) => Settled(i)' /\ listed'[i] = listed[i])
    BY <1>8 DEF RouteInv
  <2> QED  BY <2>1 DEF Fits, Forced
<1> QED  BY <1>1, <1>5, <1>2, <1>8, <1>9, <1>10

\* Whatever the expression and the limit say.
LEMMA DecideMoves ==
  ASSUME Decide
  PROVE  Moves /\ UNCHANGED <<net, job, config>>
BY DEF Decide, NextInstance, Search, ConfigStays, caches, Moves

LEMMA EvaluateStep ==
  RouteInv /\ (Evaluate \/ CallIsPublic \/ EvaluationFails) => RouteInv'
<1> SUFFICES ASSUME RouteInv, Evaluate \/ CallIsPublic \/ EvaluationFails PROVE RouteInv'
  OBVIOUS
<1>1. ContextDone /\ Moves /\ UNCHANGED <<net, job, config>>
  <2>1. CASE Evaluate
    BY <2>1, DecideMoves DEF Evaluate
  <2>2. CASE CallIsPublic
    <3>1. Filters[expr.words].nets \in Seq(Networks)
      BY <2>2, RouteAssumption DEF CallIsPublic, HasValue, Calls
    <3> QED  BY <2>2, <3>1 DEF CallIsPublic, Search, ConfigStays, caches, Moves
  <2>3. CASE EvaluationFails
    BY <2>3 DEF EvaluationFails, ConfigStays, caches, Moves, RouteInv, Types
  <2> QED  BY <2>1, <2>2, <2>3
<1>2. DOMAIN job' = Hosts
  BY <1>1 DEF RouteInv, Types
<1>3. PICK c : c = Current
  OBVIOUS
<1>4. /\ next \in DOMAIN Instances /\ c \in Hosts
      /\ listed' \in [Hosts -> BOOLEAN]
      /\ \A i \in Hosts : Settled(i) => Settled(i)'
      /\ Settled(c)'
      /\ \A i \in Hosts : Fits(i)'
  BY <1>1, <1>3, ContextHolds
<1> QED  BY <1>1, <1>2, <1>3, <1>4, MoveStep

LEMMA IsPublicReturnsStep ==
  RouteInv /\ IsPublicReturns => RouteInv'
<1> SUFFICES ASSUME RouteInv, IsPublicReturns PROVE RouteInv'
  OBVIOUS
<1>1. /\ Moves /\ UNCHANGED <<net, listed, job, config>>
      /\ phase = "call" /\ next \in DOMAIN Instances
  BY DecideMoves DEF IsPublicReturns, At, RouteInv, Types
<1>2. Current \in Hosts /\ Settled(Current)
  BY <1>1, CurrentIsHost DEF RouteInv, Evaluated, Current
<1>3. \A i : Settled(i)' = Settled(i)
  BY <1>1 DEF Settled, Known, Hidden
<1>4. \A i \in Hosts : Fits(i)'
  BY <1>1, <1>3 DEF RouteInv, Fits, Forced
<1>5. DOMAIN job' = Hosts /\ listed' \in [Hosts -> BOOLEAN]
  BY <1>1 DEF RouteInv, Types
<1> QED  BY <1>1, <1>2, <1>3, <1>4, <1>5, MoveStep

\* The way of a job that is built when the second search is over is the one the verdict
\* of the first asks for.
LEMMA BuildStep ==
  RouteInv /\ (BuildAsUser \/ BuildAsDefaultUser) => RouteInv'
<1> SUFFICES ASSUME RouteInv, BuildAsUser \/ BuildAsDefaultUser PROVE RouteInv'
  OBVIOUS
<1>1. /\ phase = "build" /\ next \in DOMAIN Instances /\ Answered
      /\ \E user : Build(user)
  BY DEF BuildAsUser, BuildAsDefaultUser, At, RouteInv, Types
<1>2. PICK user, j :
        /\ Take(j)
        /\ \/ j = JobFor(user)
           \/ HasInput /\ Way # "none" /\ j = NotOpened
  BY <1>1, Zenon DEF Build
<1>3. Current \in Hosts /\ Settled(Current) /\ (listed[Current] <=> public)
  <2>1. Current \in Hosts /\ Settled(Current)
    BY <1>1, CurrentIsHost DEF RouteInv, Evaluated, Current
  <2>2. IF public THEN Known(Current) ELSE Hidden(Current)
    BY <1>1, SearchFinds DEF RouteInv, Searching
  <2> QED  BY <2>1, <2>2, OneVerdict DEF Settled
<1>4. Moves /\ UNCHANGED <<net, listed, config>>
  BY <1>2 DEF Take, NextInstance, Search, ConfigStays, Moves
<1>5. job' = [job EXCEPT ![Current] = j] /\ DOMAIN job = Hosts
  BY <1>2 DEF Take, RouteInv, Types
<1>6. \A i : Settled(i)' = Settled(i)
  BY <1>4 DEF Settled, Known, Hidden
<1>7. /\ j.way \in {"none", "unopened", "direct", "bastion"}
      /\ j.way = "direct" => public /\ ~Forced
      /\ j.way = "none" => ~public
      /\ j.way = "unopened" => HasInput /\ (public \/ config.bastionAddress # "")
      /\ j.way = "bastion" =>
           /\ public => Forced
           /\ j.bastion = "" => public
  <2>1. CASE j = JobFor(user)
    <3>1. /\ JobFor(user).way \in {"none", "direct", "bastion"}
          /\ JobFor(user).way = "direct" => public /\ ~Forced
          /\ JobFor(user).way = "none" => ~public
          /\ JobFor(user).way = "bastion" =>
               /\ public => Forced
               /\ JobFor(user).bastion = "" => public
      BY DEF JobFor, Way, NoJob
    <3> QED  BY <2>1, <3>1
  <2>2. CASE HasInput /\ Way # "none" /\ j = NotOpened
    <3>1. NotOpened.way = "unopened"
      BY DEF NotOpened, NoJob
    <3>2. public \/ config.bastionAddress # ""
      BY <2>2 DEF Way
    <3> QED  BY <2>2, <3>1, <3>2
  <2> QED  BY <1>2, <2>1, <2>2
<1>8. ASSUME NEW i \in Hosts PROVE Fits(i)'
  <2>1. CASE i = Current
    <3>1. job'[i] = j
      BY <1>3, <1>5, <2>1
    <3>2. Settled(i)' /\ (listed'[i] <=> public) /\ (Forced' <=> Forced) /\ config' = config
      BY <1>3, <1>4, <1>6, <2>1 DEF Forced
    <3> QED  BY <3>1, <3>2, <1>7 DEF Fits
  <2>2. CASE i # Current
    <3>1. job'[i] = job[i]
      BY <1>5, <2>2
    <3> QED  BY <3>1, <1>4, <1>6 DEF RouteInv, Fits, Forced
  <2> QED  BY <2>1, <2>2
<1>9. DOMAIN job' = Hosts /\ listed' \in [Hosts -> BOOLEAN]
  BY <1>4, <1>5 DEF RouteInv, Types
<1> QED  BY <1>1, <1>3, <1>4, <1>6, <1>8, <1>9, MoveStep

-----------------------------------------------------------------------------

LEMMA StepInv ==
  RouteInv /\ [Next]_vars => RouteInv'
<1> SUFFICES ASSUME RouteInv, [Next]_vars PROVE RouteInv'
  OBVIOUS
<1>1. CASE UNCHANGED vars
  BY <1>1, StutterStep
<1>2. CASE SetUp
  <2>1. LineNext /\ UNCHANGED <<net, next, queue, public, listed, job>>
    BY <1>2 DEF SetUp, caches
  <2>2. phase \in Early /\ phase' \in Early \cup {"ready", "0", "1"}
    BY <2>1, SetUpIsEarly
  <2> QED  BY <2>1, <2>2, PhaseStep DEF Early
<1>3. CASE FindBastion \/ NoBastionFound \/ BastionFails \/ NoBastion
  <2>1. /\ phase = "ready" /\ phase' \in {"loop", "1"}
        /\ UNCHANGED <<net, next, queue, public, listed, job>>
    BY <1>3, Zenon DEF FindBastion, NoBastionFound, BastionFails, NoBastion, Lookup, caches
  <2> QED  BY <2>1, PhaseStep DEF Early
<1>4. CASE PrintConf \/ PrintFails \/ Finish \/ Return
  <2>1. /\ phase' \in {"0", "1", "end"}
        /\ UNCHANGED <<config, net, next, queue, public, listed, job>>
    BY <1>4 DEF PrintConf, PrintFails, Finish, Return, ConfigStays, caches
  <2> QED  BY <2>1, PhaseStep DEF Early
<1>5. CASE ReadInstance
  BY <1>5, ReadInstanceStep
<1>6. CASE AskNetwork
  BY <1>6, AskNetworkStep
<1>7. CASE Evaluate \/ CallIsPublic \/ EvaluationFails
  BY <1>7, EvaluateStep
<1>8. CASE IsPublicReturns
  BY <1>8, IsPublicReturnsStep
<1>9. CASE BuildAsUser \/ BuildAsDefaultUser
  BY <1>9, BuildStep
<1> QED  BY <1>1, <1>2, <1>3, <1>4, <1>5, <1>6, <1>7, <1>8, <1>9 DEF Next, Loop

LEMMA RouteInvAlways ==
  Spec => []RouteInv
BY InitInv, StepInv, PTL DEF Spec

-----------------------------------------------------------------------------
(***************************************************************************)
(* The invariant of a whole run: with that of the set-up, what a job is    *)
(* made of, who has a job, and what is printed.  After the set-up Config   *)
(* changes only once, when the bastion is looked up.                       *)
(***************************************************************************)

Phases == {"file", "options", "split", "clients", "ready", "loop", "filter", "call",
           "build", "print", "end", "0", "1"}

ImagesOK == img \in [Images -> {Nil, "tagged", "plain", "error"}]

\* No instance was matched twice, and nothing was done before the loop.
CountsOK ==
  /\ phase \in Phases
  /\ matched \in Nat /\ matched <= next /\ matched <= Len(Instances)
  /\ phase \in BeforeLookup \cup {"loop", "filter", "call"} => matched < next
  /\ phase \in BeforeLookup => next = 1 /\ printed = <<>>

\* The user that the image m asked for.
ImageUser(m) == DefaultUser(img[m])

\* The bastion that was found is the one that the last -b asked for.
FoundOK ==
  config.bastionAddress # "" =>
    /\ config.bastionAddress = Bastion
    /\ LastBastion[1] # ""
    /\ img[ImageOf[Bastion]] # Nil
    /\ config.bastionUser = LET user == Endpoints[LastBastion[2]].user
                            IN IF user # "" THEN user ELSE ImageUser(ImageOf[Bastion])

\* A job is made of Config and of the image of its instance.
Made(i) ==
  /\ job[i].way \in {"", "none", "unopened", "direct", "bastion"}
  /\ job[i].way = "none" => config.bastionAddress = ""
  /\ job[i].way = "direct" => job[i].bastion = ""
  /\ job[i].way = "bastion" => /\ job[i].bastion = config.bastionAddress
                               /\ job[i].as = config.bastionUser
                               /\ job[i].gate = config.bastionPort
  /\ job[i].way \in {"direct", "bastion"} =>
       /\ job[i].port = config.number["port"]
       /\ \/ config.text["user"] # "" /\ job[i].user = config.text["user"]
          \/ /\ config.text["user"] = "" /\ img[ImageOf[i]] # Nil
             /\ job[i].user = ImageUser(ImageOf[i])

Reachable(i) == job[i].way \in {"direct", "bastion"}

\* When command lines are printed there is but one instance that can be reached, the
\* current one, and it is printed.
PrintsOK ==
  /\ phase = "print" => config.mode # "pssh" /\ Reachable(Current)
  /\ config.mode # "pssh" =>
       \A i \in Hosts : Reachable(i) => phase \in {"print"} \cup Ended /\ i = Current
  /\ printed # <<>> => /\ phase = "0" /\ next \in DOMAIN Instances
                       /\ config.mode # "pssh" /\ Reachable(Current)
                       /\ printed = <<CommandLineOf(job[Current])>>

\* The loop has made a job of every named instance it has passed, and ends before the
\* last one only when the limit was exceeded.
NamedOK ==
  /\ \A n \in DOMAIN Instances :
       n < next /\ Instances[n] \in expr.hosts => job[Instances[n]].way # ""
  /\ phase = "end" => next > Len(Instances) \/ matched > config.number["limit"]

RunInv ==
  /\ RouteInv /\ LineInv /\ ImagesOK /\ CountsOK /\ FoundOK
  /\ \A i \in Hosts : Made(i)
  /\ PrintsOK /\ NamedOK

-----------------------------------------------------------------------------

\* The image of an instance or of the bastion has a result that stays.
LEMMA ImagesStay ==
  ASSUME ImagesOK, UNCHANGED img \/ (\E m \in Images : \E r : ImageIs(m, r))
  PROVE  ImagesOK' /\ \A k \in Images : img[k] # Nil => img'[k] = img[k]
BY RouteAssumption DEF ImagesOK, ImageIs

LEMMA ImagesAre ==
  /\ ImageOf[Bastion] \in Images /\ \A i \in Hosts : ImageOf[i] \in Images
  /\ "tagged" # Nil /\ "plain" # Nil /\ "error" # Nil
BY RouteAssumption DEF Hosts

\* A step after the set-up keeps what the set-up has checked.
LEMMA LineKept ==
  ASSUME LineInv, LineStays, phase \notin Early \cup Ended, phase' \notin BeforeLookup,
         DOMAIN config' = DOMAIN config,
         \A f \in Fields \ {"bastionAddress", "bastionUser"} : config'[f] = config[f]
  PROVE  LineInv'
<1>1. UNCHANGED <<given, args, sopts, expr, command, log>>
  BY DEF LineStays
<1>2. /\ config'.on = config.on /\ config'.mode = config.mode /\ config'.hosts = config.hosts
      /\ config'.text = config.text /\ config'.number = config.number
      /\ config'.methods = config.methods /\ config'.bastionName = config.bastionName
      /\ config'.bastionPort = config.bastionPort
  BY DEF Fields
<1>3. \A O : LastIn(O)' = LastIn(O)
  BY <1>1 DEF LastIn, SelectLastInSeq
<1>4. LastBastion' = LastBastion /\ LastGiven' = LastGiven
  BY <1>3 DEF LastBastion, LastGiven
<1>5. LineTypes'
  BY <1>1, <1>2 DEF LineInv, LineTypes, ConfigTypes
<1>6. ClusterOK' /\ NumbersOK' /\ HostsOK'
  BY <1>1, <1>2 DEF LineInv, ClusterOK, NumbersOK, HostsOK, Early
<1>7. CheckedOK' /\ SplitOK'
  BY <1>1, <1>2 DEF LineInv, CheckedOK, SplitOK, SplitAs, Clash, Early
<1>8. AskedOK' /\ BastionOK'
  BY <1>1, <1>2, <1>3, <1>4 DEF LineInv, AskedOK, BastionOK, EndpointPort
<1>9. MethodsOK'
  BY <1>1, <1>2, <1>4 DEF LineInv, MethodsOK, DefaultTried
<1> QED  BY <1>5, <1>6, <1>7, <1>8, <1>9 DEF LineInv

\* So does it keep the bastion that was found, and the jobs that were made.
LEMMA LoopKeeps ==
  ASSUME RunInv, ConfigStays, UNCHANGED img \/ (\E m \in Images : \E r : ImageIs(m, r)),
         phase \notin BeforeLookup \cup Ended, phase' \notin BeforeLookup
  PROVE  /\ LineInv' /\ ImagesOK' /\ FoundOK'
         /\ \A i \in Hosts : job'[i] = job[i] => Made(i)'
<1>1. config' = config /\ LineStays /\ UNCHANGED log
  BY DEF ConfigStays, LineStays
<1>2. LineInv'
  BY <1>1, LineKept DEF RunInv, Early, BeforeLookup
<1>3. ImagesOK' /\ \A k \in Images : img[k] # Nil => img'[k] = img[k]
  BY ImagesStay DEF RunInv
<1>4. \A k \in Images : img[k] # Nil => img'[k] # Nil /\ ImageUser(k)' = ImageUser(k)
  BY <1>1, <1>3 DEF ImageUser, DefaultUser
<1>5. LastBastion' = LastBastion
  BY <1>1 DEF LastBastion, LastIn, SelectLastInSeq
<1>6. FoundOK'
  BY <1>1, <1>4, <1>5, ImagesAre DEF RunInv, FoundOK
<1>7. ASSUME NEW i \in Hosts, job'[i] = job[i] PROVE Made(i)'
  <2>1. Made(i) /\ ImageOf[i] \in Images
    BY ImagesAre DEF RunInv
  <2> QED  BY <1>1, <1>4, <1>7, <2>1 DEF Made
<1> QED  BY <1>2, <1>3, <1>6, <1>7

\* As long as nothing was printed or is about to be.
LEMMA PrintsKept ==
  ASSUME RunInv, UNCHANGED <<config, job, printed>>, phase \notin {"print"} \cup Ended,
         phase' # "print"
  PROVE  PrintsOK'
<1>1. printed = <<>>
  BY DEF RunInv, PrintsOK, Ended
<1>2. config.mode # "pssh" => \A i \in Hosts : ~Reachable(i)
  BY DEF RunInv, PrintsOK
<1> QED  BY <1>1, <1>2 DEF PrintsOK, Reachable

LEMMA RunInit ==
  Init => RunInv
<1> SUFFICES ASSUME Init PROVE RunInv
  OBVIOUS
<1>1. RouteInv /\ LineInv
  BY InitInv, LineInitInv DEF Init
<1>2. /\ phase = "file" /\ expr = [hosts |-> {}, words |-> <<>>]
      /\ config.bastionAddress = "" /\ config.mode = "pssh"
  BY DEF Init, LineInit
<1>3. ImagesOK
  BY DEF Init, ImagesOK
<1>4. /\ next = 1 /\ matched = 0 /\ printed = <<>> /\ Len(Instances) \in Nat
  BY RouteAssumption DEF Init
<1>5. CountsOK
  <2>1. phase \in Phases
    BY <1>2 DEF Phases
  <2> QED  BY <1>4, <2>1 DEF CountsOK
<1>6. FoundOK
  BY <1>2 DEF FoundOK
<1>7. \A i \in Hosts : job[i].way = ""
  BY <1>1, <1>2 DEF RouteInv, NoneYet, Early
<1>8. \A i \in Hosts : Made(i)
  BY <1>7 DEF Made
<1>9. PrintsOK
  BY <1>2, <1>4 DEF PrintsOK
<1>10. NamedOK
  BY <1>2 DEF NamedOK
<1> QED  BY <1>1, <1>3, <1>5, <1>6, <1>8, <1>9, <1>10 DEF RunInv

LEMMA SetUpRun ==
  RunInv /\ RouteInv' /\ SetUp => RunInv'
<1> SUFFICES ASSUME RunInv, RouteInv', SetUp PROVE RunInv'
  OBVIOUS
<1>1. LineNext /\ UNCHANGED <<net, img, next, queue, public, listed, matched, job, printed>>
  BY DEF SetUp, caches
<1>2. LineInv'
  BY <1>1, LineStepInv DEF RunInv
<1>3. phase \in Early /\ phase' \in Early \cup {"ready", "0", "1"}
  BY <1>1, SetUpIsEarly
<1>4. config'.bastionAddress = ""
  <2>1. config.bastionAddress = ""
    BY <1>3 DEF RunInv, LineInv, BastionOK, Early, BeforeLookup
  <2>2. CASE Accepts
    BY <2>1, <2>2, AcceptedChange DEF RunInv, LineInv, Took
  <2>3. CASE ~Accepts
    BY <1>1, <2>1, <2>3 DEF LineNext, Parse, Accepts, ReadOptionFile, RefuseOptionFile,
       HelpOrVersion, RefuseOption, RefuseNumber, RefuseBastion, EndOptions, RefuseClash,
       SplitArgs, RefuseArgs, SetupFails, MakeClients
  <2> QED  BY <2>2, <2>3
<1>5. next = 1 /\ printed = <<>> /\ \A i \in Hosts : job[i].way = ""
  BY <1>3 DEF RunInv, CountsOK, RouteInv, NoneYet, Early, BeforeLookup
<1>6. ImagesOK' /\ CountsOK'
  BY <1>1, <1>3 DEF RunInv, ImagesOK, CountsOK, Early, BeforeLookup, Phases
<1>7. FoundOK' /\ \A i \in Hosts : Made(i)'
  BY <1>1, <1>4, <1>5 DEF FoundOK, Made
<1>8. PrintsOK'
  BY <1>1, <1>3, <1>5 DEF PrintsOK, Early, Reachable
<1>9. NamedOK'
  <2>1. \A n \in DOMAIN Instances : ~(n < 1)
    BY RouteAssumption
  <2> QED  BY <1>1, <1>3, <1>5, <2>1 DEF NamedOK, Early
<1> QED  BY <1>2, <1>6, <1>7, <1>8, <1>9 DEF RunInv

LEMMA LookupRun ==
  RunInv /\ RouteInv' /\ (FindBastion \/ NoBastionFound \/ BastionFails \/ NoBastion) => RunInv'
<1> SUFFICES ASSUME RunInv, RouteInv', FindBastion \/ NoBastionFound \/ BastionFails \/ NoBastion
             PROVE  RunInv'
  OBVIOUS
<1>1. /\ phase = "ready" /\ phase' \in {"loop", "1"} /\ LineStays
      /\ UNCHANGED <<net, next, queue, public, listed, matched, job, printed>>
  BY Zenon DEF FindBastion, NoBastionFound, BastionFails, NoBastion, Lookup, ConfigStays, caches
<1>2. DOMAIN config = Fields /\ config.bastionAddress = "" /\ ConfigTypes
      /\ (LastBastion[1] # "" => config.bastionUser = Endpoints[LastBastion[2]].user)
      /\ (LastBastion[1] = "" => config.bastionName = "")
  BY <1>1 DEF RunInv, LineInv, LineTypes, ConfigTypes, BastionOK, AskedOK, BeforeLookup
<1>3. LastBastion' = LastBastion
  BY <1>1 DEF LineStays, LastBastion, LastIn, SelectLastInSeq
<1>4. /\ DOMAIN config' = Fields
      /\ \A f \in Fields \ {"bastionAddress", "bastionUser"} : config'[f] = config[f]
      /\ ImagesOK' /\ FoundOK'
  <2>1. CASE FindBastion
    <3>1. PICK r \in {"tagged", "plain", "error"} :
            /\ ImageIs(ImageOf[Bastion], r)
            /\ config' = [config EXCEPT !.bastionAddress = Bastion,
                                        !.bastionUser = BastionUser(DefaultUser(r))]
      BY <2>1 DEF FindBastion
    <3>2. ImagesOK' /\ img'[ImageOf[Bastion]] = r /\ r # Nil
      BY <3>1, ImagesAre, RouteAssumption DEF RunInv, ImagesOK, ImageIs
    <3>3. /\ DOMAIN config' = Fields
          /\ \A f \in Fields \ {"bastionAddress", "bastionUser"} : config'[f] = config[f]
          /\ config'.bastionAddress = Bastion
          /\ config'.bastionUser = BastionUser(DefaultUser(r))
      BY <1>2, <3>1 DEF Fields
    <3>4. ImageUser(ImageOf[Bastion])' = DefaultUser(r)
      <4>1. config'.text = config.text
        BY <3>3 DEF Fields
      <4> QED  BY <3>2, <4>1 DEF ImageUser, DefaultUser
    <3>5. LastBastion[1] # ""
      BY <1>2, <2>1 DEF FindBastion, Lookup
    <3>6. FoundOK'
      BY <1>2, <1>3, <3>2, <3>3, <3>4, <3>5 DEF FoundOK, BastionUser
    <3> QED  BY <3>2, <3>3, <3>6
  <2>2. CASE NoBastionFound
    <3>1. config' = [config EXCEPT !.bastionUser = BastionUser("")] /\ UNCHANGED img
      BY <2>2 DEF NoBastionFound, caches
    <3>2. /\ DOMAIN config' = Fields
          /\ \A f \in Fields \ {"bastionAddress", "bastionUser"} : config'[f] = config[f]
          /\ config'.bastionAddress = ""
      BY <1>2, <3>1 DEF Fields
    <3> QED  BY <3>1, <3>2 DEF RunInv, ImagesOK, FoundOK
  <2>3. CASE BastionFails \/ NoBastion
    <3>1. config' = config /\ UNCHANGED img
      BY <2>3 DEF BastionFails, NoBastion, ConfigStays, caches
    <3> QED  BY <1>2, <3>1 DEF RunInv, ImagesOK, FoundOK
  <2> QED  BY <2>1, <2>2, <2>3
<1>5. LineInv'
  BY <1>1, <1>2, <1>4, LineKept DEF RunInv, Early, Ended, BeforeLookup
<1>6. next = 1 /\ printed = <<>> /\ \A i \in Hosts : job[i].way = ""
  BY <1>1 DEF RunInv, CountsOK, RouteInv, NoneYet, BeforeLookup
<1>7. CountsOK'
  BY <1>1 DEF RunInv, CountsOK, BeforeLookup, Phases
<1>8. \A i \in Hosts : Made(i)'
  BY <1>1, <1>6 DEF Made
<1>9. PrintsOK'
  BY <1>1, <1>6 DEF PrintsOK, Reachable
<1>10. NamedOK'
  <2>1. \A n \in DOMAIN Instances : ~(n < 1)
    BY RouteAssumption
  <2> QED  BY <1>1, <1>6, <2>1 DEF NamedOK
<1> QED  BY <1>4, <1>5, <1>7, <1>8, <1>9, <1>10 DEF RunInv

\* The steps that make no job, print nothing and have no verdict on an instance.
LEMMA PassingRun ==
  RunInv /\ RouteInv' /\ (ReadInstance \/ AskNetwork \/ Finish \/ Return) => RunInv'
<1> SUFFICES ASSUME RunInv, RouteInv', ReadInstance \/ AskNetwork \/ Finish \/ Return
             PROVE  RunInv'
  OBVIOUS
<1>1. /\ ConfigStays /\ UNCHANGED <<config, expr, next, matched, job, printed>>
      /\ phase \in {"loop", "filter", "call", "build", "end"}
      /\ \/ phase = "loop" /\ phase' = "filter"
         \/ phase \in {"filter", "call", "build"} /\ phase' = phase
         \/ phase = "loop" /\ phase' = "end" /\ next > Len(Instances)
         \/ phase = "end" /\ phase' \in {"0", "1"}
  BY DEF ReadInstance, AskNetwork, Finish, Return, At, ConfigStays, LineStays, Search, caches
<1>2. UNCHANGED img \/ (\E m \in Images : \E r : ImageIs(m, r))
  <2>1. CASE ReadInstance
    <3>1. ImageOf[Current] \in Images
      BY <2>1, CurrentIsHost, ImagesAre, RouteAssumption DEF ReadInstance, At, RunInv, RouteInv, Types
    <3> QED  BY <2>1, <3>1 DEF ReadInstance
  <2>2. CASE AskNetwork \/ Finish \/ Return
    BY <2>2 DEF AskNetwork, Finish, Return, caches
  <2> QED  BY <2>1, <2>2
<1>3. LineInv' /\ ImagesOK' /\ FoundOK' /\ \A i \in Hosts : Made(i)'
  BY <1>1, <1>2, LoopKeeps DEF BeforeLookup, Ended
<1>4. PrintsOK'
  BY <1>1, PrintsKept DEF Ended
<1>5. CountsOK'
  BY <1>1 DEF RunInv, CountsOK, Phases, BeforeLookup
<1>6. NamedOK'
  BY <1>1 DEF RunInv, NamedOK
<1> QED  BY <1>3, <1>4, <1>5, <1>6 DEF RunInv

\* The verdict of the filter: an instance that is passed over was not named, and one
\* that ends the loop is beyond the limit.
LEMMA DecideRun ==
  RunInv /\ RouteInv' /\ (Evaluate \/ CallIsPublic \/ EvaluationFails \/ IsPublicReturns)
    => RunInv'
<1> SUFFICES ASSUME RunInv, RouteInv',
                    Evaluate \/ CallIsPublic \/ EvaluationFails \/ IsPublicReturns
             PROVE  RunInv'
  OBVIOUS
<1>1. /\ ConfigStays /\ UNCHANGED <<config, expr, img, job, printed>>
      /\ phase \in {"filter", "call"} /\ next \in DOMAIN Instances
      /\ \/ phase' \in {"call", "1"} /\ next' = next /\ matched' = matched
         \/ Decide
  BY DEF Evaluate, CallIsPublic, EvaluationFails, IsPublicReturns, ContextDone, Decide, At,
     ConfigStays, LineStays, caches, RunInv, RouteInv, Types
<1>2. /\ matched \in Nat /\ matched < next /\ matched <= Len(Instances)
      /\ next \in 1 .. Len(Instances) /\ Len(Instances) \in Nat
      /\ config.number["limit"] \in Int
  BY <1>1, RouteAssumption DEF RunInv, CountsOK, RouteInv, Types, LineInv, LineTypes, ConfigTypes,
     Quantities
<1>3. \/ phase' \in {"call", "1"} /\ next' = next /\ matched' = matched
      \/ phase' = "loop" /\ next' = next + 1 /\ matched' = matched /\ Current \notin expr.hosts
      \/ phase' = "build" /\ next' = next /\ matched' = matched + 1
      \/ phase' = "end" /\ next' = next /\ matched' = matched + 1 /\ matched >= config.number["limit"]
  <2>1. CASE Decide
    BY <2>1 DEF Decide, NextInstance, Selects, Named
  <2> QED  BY <1>1, <2>1
<1>4. LineInv' /\ ImagesOK' /\ FoundOK' /\ \A i \in Hosts : Made(i)'
  BY <1>1, <1>3, LoopKeeps DEF BeforeLookup, Ended
<1>5. PrintsOK'
  BY <1>1, <1>3, PrintsKept DEF Ended
<1>6. CountsOK'
  <2>1. phase' \in Phases /\ phase' \notin BeforeLookup
    BY <1>3 DEF Phases, BeforeLookup
  <2>2. matched' \in Nat /\ matched' <= next' /\ matched' <= Len(Instances)
    BY <1>2, <1>3
  <2>3. phase' \in {"loop", "filter", "call"} => matched' < next'
    BY <1>2, <1>3
  <2> QED  BY <2>1, <2>2, <2>3 DEF CountsOK
<1>7. NamedOK'
  <2>1. ASSUME NEW n \in DOMAIN Instances, n < next', Instances[n] \in expr.hosts
        PROVE  job[Instances[n]].way # ""
    <3>1. n \in Int /\ (n < next \/ (n = next /\ Current \notin expr.hosts))
      BY <1>2, <1>3, <2>1
    <3> QED  BY <3>1, <2>1 DEF RunInv, NamedOK, Current
  <2>2. phase' = "end" => matched' > config.number["limit"]
    BY <1>2, <1>3
  <2> QED  BY <1>1, <2>1, <2>2 DEF NamedOK
<1> QED  BY <1>4, <1>5, <1>6, <1>7 DEF RunInv

\* A job is made of Config and of the image, and printed unless it is run.
LEMMA BuildRun ==
  RunInv /\ RouteInv' /\ (BuildAsUser \/ BuildAsDefaultUser) => RunInv'
<1> SUFFICES ASSUME RunInv, RouteInv', BuildAsUser \/ BuildAsDefaultUser PROVE RunInv'
  OBVIOUS
<1>1. /\ phase = "build" /\ next \in 1 .. Len(Instances) /\ Len(Instances) \in Nat
      /\ next \in DOMAIN Instances /\ Current \in Hosts /\ ImageOf[Current] \in Images
  <2>1. phase = "build" /\ next \in DOMAIN Instances
    BY DEF BuildAsUser, BuildAsDefaultUser, At, RunInv, RouteInv, Types
  <2>2. Current \in Hosts
    BY <2>1, CurrentIsHost
  <2> QED  BY <2>1, <2>2, ImagesAre, RouteAssumption
<1>2. PICK c \in Hosts : c = Current
  BY <1>1
<1>3. PICK user :
        /\ Build(user)
        /\ UNCHANGED img \/ (\E m \in Images : \E r : ImageIs(m, r))
        /\ \/ config.text["user"] # "" /\ user = config.text["user"]
           \/ /\ config.text["user"] = "" /\ img'[ImageOf[c]] # Nil
              /\ user = ImageUser(ImageOf[c])'
  <2>1. CASE BuildAsUser
    BY <2>1 DEF BuildAsUser
  <2>2. CASE BuildAsDefaultUser
    <3>1. PICK r \in {"tagged", "plain", "error"} :
            ImageIs(ImageOf[c], r) /\ Build(DefaultUser(r)) /\ config.text["user"] = ""
      BY <1>2, <2>2 DEF BuildAsDefaultUser
    <3>2. img'[ImageOf[c]] = r /\ r # Nil /\ ImageOf[c] \in Images
      BY <1>1, <1>2, <3>1, ImagesAre DEF RunInv, ImagesOK, ImageIs
    <3>3. ImageUser(ImageOf[c])' = DefaultUser(r)
      <4>1. config' = config
        BY <3>1, Zenon DEF Build, Take, ConfigStays
      <4> QED  BY <3>2, <4>1 DEF ImageUser, DefaultUser
    <3> QED  BY <3>1, <3>2, <3>3
  <2> QED  BY <2>1, <2>2
<1>4. PICK j :
        /\ Take(j)
        /\ \/ j = JobFor(user)
           \/ HasInput /\ Way # "none" /\ j = NotOpened
  BY <1>3, Zenon DEF Build
<1>5. /\ ConfigStays /\ UNCHANGED <<config, expr, matched, printed>>
      /\ job' = [job EXCEPT ![c] = j] /\ DOMAIN job = Hosts
      /\ \/ /\ phase' = "loop" /\ next' = next + 1
            /\ config.mode = "pssh" \/ j.way \notin {"direct", "bastion"}
         \/ /\ phase' = "print" /\ next' = next
            /\ config.mode # "pssh" /\ j.way \in {"direct", "bastion"}
  BY <1>2, <1>4 DEF Take, NextInstance, ConfigStays, LineStays, RunInv, RouteInv, Types
<1>6. job'[c] = j /\ \A i \in Hosts : i # c => job'[i] = job[i]
  BY <1>5
<1>7. j.way \in {"none", "unopened", "direct", "bastion"}
  <2>1. JobFor(user).way \in {"none", "direct", "bastion"}
    BY DEF JobFor, Way, NoJob
  <2>2. NotOpened.way = "unopened"
    BY DEF NotOpened, NoJob
  <2> QED  BY <1>4, <2>1, <2>2
<1>8. LineInv' /\ ImagesOK' /\ FoundOK' /\ \A i \in Hosts : Made(i)'
  <2>1. /\ LineInv' /\ ImagesOK' /\ FoundOK'
        /\ \A i \in Hosts : job'[i] = job[i] => Made(i)'
    BY <1>1, <1>3, <1>5, LoopKeeps DEF BeforeLookup, Ended
  <2>2. Made(c)'
    <3>1. CASE j = JobFor(user) /\ Way = "none"
      BY <3>1, <1>5, <1>6 DEF JobFor, NoJob, Way, Made
    <3>2. CASE j = JobFor(user) /\ Way = "direct"
      BY <3>2, <1>3, <1>5, <1>6 DEF JobFor, NoJob, Made
    <3>3. CASE j = JobFor(user) /\ Way = "bastion"
      BY <3>3, <1>3, <1>5, <1>6 DEF JobFor, Made
    <3>4. CASE j = NotOpened
      BY <3>4, <1>6 DEF NotOpened, NoJob, Made
    <3>5. Way \in {"none", "direct", "bastion"}
      BY DEF Way
    <3> QED  BY <1>4, <3>1, <3>2, <3>3, <3>4, <3>5
  <2> QED  BY <1>6, <2>1, <2>2
<1>9. PrintsOK'
  <2>1. printed' = <<>>
    BY <1>1, <1>5 DEF RunInv, PrintsOK
  <2>2. phase' = "print" => config.mode # "pssh" /\ Reachable(Current)'
    BY <1>2, <1>5, <1>6, <1>7 DEF Reachable, Current
  <2>3. ASSUME config.mode # "pssh", NEW i \in Hosts, Reachable(i)'
        PROVE  phase' = "print" /\ i = Current'
    <3>1. i = c
      BY <1>1, <1>6, <2>3 DEF RunInv, PrintsOK, Reachable, Ended
    <3>2. j.way \in {"direct", "bastion"}
      BY <3>1, <1>6, <2>3 DEF Reachable
    <3> QED  BY <3>1, <3>2, <1>2, <1>5, <2>3 DEF Current
  <2> QED  BY <1>5, <2>1, <2>2, <2>3 DEF PrintsOK
<1>10. CountsOK'
  <2>1. phase' \in Phases /\ phase' \notin BeforeLookup
    BY <1>5 DEF Phases, BeforeLookup
  <2> QED  BY <1>1, <1>5, <2>1 DEF RunInv, CountsOK
<1>11. NamedOK'
  <2> SUFFICES ASSUME NEW n \in DOMAIN Instances, n < next', Instances[n] \in expr.hosts
               PROVE  job'[Instances[n]].way # ""
    BY <1>5 DEF NamedOK
  <2>1. CASE Instances[n] = c
    BY <2>1, <1>6, <1>7
  <2>2. CASE Instances[n] # c
    <3>1. Instances[n] \in Hosts /\ n < next
      BY <2>2, <1>1, <1>2, <1>5 DEF Hosts, Current
    <3> QED  BY <3>1, <2>2, <1>6 DEF RunInv, NamedOK
  <2> QED  BY <2>1, <2>2
<1> QED  BY <1>8, <1>9, <1>10, <1>11 DEF RunInv

\* The line that is printed is that of the only job that can be reached.
LEMMA PrintRun ==
  RunInv /\ RouteInv' /\ (PrintConf \/ PrintFails) => RunInv'
<1> SUFFICES ASSUME RunInv, RouteInv', PrintConf \/ PrintFails PROVE RunInv'
  OBVIOUS
<1>1. /\ ConfigStays /\ UNCHANGED <<config, expr, command, img, next, matched, job>>
      /\ phase = "print" /\ phase' \in Ended /\ next \in DOMAIN Instances
  BY DEF PrintConf, PrintFails, At, ConfigStays, LineStays, caches, Ended, RunInv, RouteInv, Types
<1>2. LineInv' /\ ImagesOK' /\ FoundOK' /\ \A i \in Hosts : Made(i)'
  BY <1>1, LoopKeeps DEF BeforeLookup, Ended
<1>3. PrintsOK'
  <2>1. printed = <<>> /\ config.mode # "pssh" /\ Reachable(Current)
    BY <1>1 DEF RunInv, PrintsOK
  <2>2. \A i \in Hosts : Reachable(i) => i = Current
    BY <2>1 DEF RunInv, PrintsOK
  <2>3. CASE PrintFails
    BY <1>1, <2>1, <2>2, <2>3 DEF PrintFails, PrintsOK, Reachable, Current, Ended
  <2>4. CASE PrintConf
    <3>1. phase' = "0" /\ printed' = <<CommandLineOf(job[Current])>>
      BY <2>1, <2>4 DEF PrintConf
    <3>2. CommandLineOf(job[Current])' = CommandLineOf(job[Current])
      BY <1>1 DEF CommandLineOf, Printed, Current, SelectInSeq
    <3> QED  BY <1>1, <2>1, <2>2, <3>1, <3>2 DEF PrintsOK, Reachable, Current, Ended
  <2> QED  BY <2>3, <2>4
<1>4. CountsOK'
  BY <1>1 DEF RunInv, CountsOK, Phases, BeforeLookup, Ended
<1>5. NamedOK'
  BY <1>1 DEF RunInv, NamedOK, Ended
<1> QED  BY <1>2, <1>3, <1>4, <1>5 DEF RunInv

LEMMA StutterRun ==
  RunInv /\ RouteInv' /\ UNCHANGED vars => RunInv'
<1> SUFFICES ASSUME RunInv, RouteInv', UNCHANGED vars PROVE RunInv'
  OBVIOUS
<1>1. UNCHANGED <<given, phase, args, sopts, config, expr, command, log, img, next, matched,
                  job, printed>>
  BY DEF vars, lineVars, caches
<1>2. LineInv'
  BY <1>1, LineStutter DEF RunInv
<1>3. ImagesOK' /\ CountsOK' /\ NamedOK'
  BY <1>1 DEF RunInv, ImagesOK, CountsOK, NamedOK
<1>4. \A m : ImageUser(m)' = ImageUser(m)
  BY <1>1 DEF ImageUser, DefaultUser
<1>5. FoundOK'
  BY <1>1, <1>4 DEF RunInv, FoundOK, LastBastion, LastIn, SelectLastInSeq
<1>6. \A i \in Hosts : Made(i)'
  BY <1>1, <1>4 DEF RunInv, Made
<1>7. PrintsOK'
  <2>1. CommandLineOf(job[Current])' = CommandLineOf(job[Current])
    BY <1>1 DEF CommandLineOf, Printed, Current, SelectInSeq
  <2> QED  BY <1>1, <2>1 DEF RunInv, PrintsOK, Reachable, Current
<1> QED  BY <1>2, <1>3, <1>5, <1>6, <1>7 DEF RunInv

LEMMA RunStep ==
  RunInv /\ [Next]_vars => RunInv'
<1> SUFFICES ASSUME RunInv, [Next]_vars PROVE RunInv'
  OBVIOUS
<1>1. RouteInv'
  BY StepInv DEF RunInv
<1> QED  BY <1>1, StutterRun, SetUpRun, LookupRun, PassingRun, DecideRun, BuildRun, PrintRun
         DEF Next, Loop

LEMMA RunInvAlways ==
  Spec => []RunInv
BY RunInit, RunStep, PTL DEF Spec

-----------------------------------------------------------------------------

\* Whatever the fleet, the words, the limit and the failures of the services: an instance
\* is connected to directly only when one of its networks is known to be public.
THEOREM DirectMeansPublic ==
  Spec => []NeverDirectBlindly
<1>1. RouteInv => NeverDirectBlindly
  <2> SUFFICES ASSUME RouteInv, NEW i \in Hosts, job[i].way = "direct" PROVE Known(i)
    BY DEF NeverDirectBlindly
  <2> QED  BY DEF RouteInv, Fits, Settled
<1> QED  BY <1>1, RouteInvAlways, PTL

\* What the filter saw of an instance is whether any of its networks is public, however
\* many of the lookups fail and whatever the instances after it need.
THEOREM FilterSeesNetworks ==
  Spec => []PublicMeansAny
<1>1. RouteInv => PublicMeansAny
  <2> SUFFICES ASSUME RouteInv, NEW n \in DOMAIN Instances, next > n
               PROVE  listed[Instances[n]] <=> Known(Instances[n])
    BY DEF PublicMeansAny
  <2>1. n < next
    BY RouteAssumption DEF RouteInv, Types
  <2>2. Settled(Instances[n])
    BY <2>1 DEF RouteInv, Evaluated
  <2> QED  BY <2>2, OneVerdict DEF Settled
<1> QED  BY <1>1, RouteInvAlways, PTL

\* The lookups for the filter and for the route cannot come to different results.
THEOREM OneRoutePerVerdict ==
  Spec => []FilterAgreesWithRoute
<1>1. RouteInv => FilterAgreesWithRoute
  BY DEF RouteInv, Fits, FilterAgreesWithRoute
<1> QED  BY <1>1, RouteInvAlways, PTL

\* No instance in private networks only is given a bastion without an address, whether
\* -B was given or not, and whether the bastion was found or not.
THEOREM EmptyBastionIsForced ==
  Spec => []EmptyBastionOnlyForced
<1>1. RouteInv => EmptyBastionOnlyForced
  <2> SUFFICES ASSUME RouteInv, NEW i \in Hosts, job[i].way = "bastion", job[i].bastion = ""
               PROVE  Forced /\ Known(i)
    BY DEF EmptyBastionOnlyForced
  <2> QED  BY DEF RouteInv, Fits, Settled
<1> QED  BY <1>1, RouteInvAlways, PTL

\* Whatever the option file and the command line hold, and whatever the services answer:
\* every variable has its type, and what is left of the arguments when the clients are
\* there is the filter, or the filter, ':::' and the command.
THEOREM RouteTypeCorrect ==
  Spec => []TypeOK
<1>1. RunInv => TypeOK
  <2> SUFFICES ASSUME RunInv PROVE TypeOK
    OBVIOUS
  <2>1. LineTypeOK
    BY DEF RunInv, LineInv, LineTypes, ConfigTypes, ClusterOK, HostsOK, SplitOK, LineTypeOK,
       Modes, Ended
  <2>2. matched \in 0 .. Len(Instances)
    BY RouteAssumption DEF RunInv, CountsOK
  <2>3. \A i \in Hosts : job[i].way \in {"", "none", "unopened", "direct", "bastion"}
    BY DEF RunInv, Made
  <2> QED  BY <2>1, <2>2, <2>3 DEF RunInv, RouteInv, Types, ImagesOK, CountsOK, Phases, TypeOK
<1> QED  BY <1>1, RunInvAlways, PTL

\* No word of the option file or of the command line, in no order, leads main past the
\* checks of ParseOptions and SplitArgs: there is a worker, the limit is not negative, a
\* job writes its output to one place, something selects instances and there is a command.
THEOREM AcceptedLinesFit ==
  Spec => []FitForMain
<1>1. RunInv => FitForMain
  BY DEF RunInv, LineInv, NumbersOK, CheckedOK, Clash, SplitOK, Ended, FitForMain
<1> QED  BY <1>1, RunInvAlways, PTL

\* However many keys, agents and passwords are given, and wherever: the last key or agent
\* is one the client tries, else the default key that is added last, and a password too.
THEOREM LastMethodIsTried ==
  Spec => []LastGivenIsTried
<1>1. RunInv => LastGivenIsTried
  BY DEF RunInv, LineInv, MethodsOK, DefaultTried, LastGivenIsTried
<1> QED  BY <1>1, RunInvAlways, PTL

\* However often -b, -u and -P are given, and whatever the lookup of the bastion finds:
\* a job through the bastion has the address that was found, the user and the port of the
\* last -b there, and the last -u and -P for the instance only.
THEOREM BastionIsAsAsked ==
  Spec => []BastionAsAsked
<1>1. RunInv => BastionAsAsked
  <2> SUFFICES ASSUME RunInv, NEW i \in Hosts, job[i].way = "bastion", config.bastionAddress # "",
                      NEW e, e = Endpoints[LastOf("bastion")]
               PROVE  /\ job[i].bastion = Bastion
                      /\ job[i].as = IF e.user # "" THEN e.user
                                     ELSE DefaultUser(img[ImageOf[Bastion]])
                      /\ job[i].gate = IF e.port # "" THEN Numbers[e.port] ELSE 22
                      /\ job[i].user = IF LastOf("user") # "" THEN LastOf("user")
                                       ELSE DefaultUser(img[ImageOf[i]])
                      /\ job[i].port = IF LastOf("port") # "" THEN Numbers[LastOf("port")] ELSE 22
    BY DEF BastionAsAsked
  <2>1. Made(i) /\ FoundOK /\ AskedOK
    BY DEF RunInv, LineInv
  <2>2. LastBastion[1] # "" /\ e = Endpoints[LastBastion[2]]
    BY <2>1 DEF FoundOK, LastBastion, LastOf
  <2>3. job[i].bastion = Bastion /\ job[i].as = config.bastionUser
        /\ job[i].gate = EndpointPort(e)
    BY <2>1, <2>2 DEF Made, FoundOK, AskedOK
  <2>4. job[i].user = IF LastOf("user") # "" THEN LastOf("user") ELSE DefaultUser(img[ImageOf[i]])
    BY <2>1 DEF Made, AskedOK, LastOf, ImageUser
  <2>5. job[i].port = IF LastOf("port") # "" THEN Numbers[LastOf("port")] ELSE 22
    BY <2>1 DEF Made, AskedOK, LastOf
  <2>6. job[i].as = IF e.user # "" THEN e.user ELSE DefaultUser(img[ImageOf[Bastion]])
    BY <2>1, <2>2, <2>3 DEF FoundOK, ImageUser
  <2> QED  BY <2>3, <2>4, <2>5, <2>6 DEF EndpointPort
<1> QED  BY <1>1, RunInvAlways, PTL

\* Whatever the filter beside -h selects and however many lookups fail: a run that the
\* limit did not cut short has a job for every instance named with -h, but for those in
\* no public network when there is no bastion, and those that could be reached and for
\* which an input file is there that could not be opened (ssh.go:108-131).
THEOREM NamedInstancesAreTaken ==
  Spec => []NamedAreTaken
<1>1. RunInv => NamedAreTaken
  <2> SUFFICES ASSUME RunInv, phase = "end", matched <= config.number["limit"],
                      NEW l \in Range(log), l[1] = "host", l[2] \in Hosts
               PROVE  \/ job[l[2]].way \in {"direct", "bastion"}
                      \/ job[l[2]].way = "none" /\ ~Known(l[2]) /\ config.bastionAddress = ""
                      \/ /\ job[l[2]].way = "unopened" /\ HasInput
                         /\ Known(l[2]) \/ config.bastionAddress # ""
    BY DEF NamedAreTaken
  <2>1. l[2] \in expr.hosts
    <3>1. PICK n \in DOMAIN log : l = log[n]
      BY DEF Range
    <3>2. l[2] \in Range(config.hosts)
      BY <3>1 DEF RunInv, LineInv, HostsOK
    <3> QED  BY <3>2 DEF RunInv, LineInv, SplitOK, Ended
  <2>2. next > Len(Instances)
    <3>1. matched \in Nat /\ config.number["limit"] \in Int
      BY DEF RunInv, CountsOK, LineInv, LineTypes, ConfigTypes, Quantities
    <3>2. next > Len(Instances) \/ matched > config.number["limit"]
      BY DEF RunInv, NamedOK
    <3> QED  BY <3>1, <3>2
  <2>3. PICK n \in DOMAIN Instances : l[2] = Instances[n]
    BY DEF Hosts
  <2>4. n < next
    BY <2>2, RouteAssumption DEF RunInv, RouteInv, Types
  <2>5. job[l[2]].way \in {"none", "unopened", "direct", "bastion"}
    BY <2>1, <2>3, <2>4 DEF RunInv, NamedOK, Made
  <2>6. ASSUME job[l[2]].way = "none"
        PROVE  ~Known(l[2]) /\ config.bastionAddress = ""
    <3>1. Hidden(l[2])
      BY <2>6 DEF RunInv, RouteInv, Fits, Settled
    <3> QED  BY <2>6, <3>1, OneVerdict DEF RunInv, Made
  <2>7. ASSUME job[l[2]].way = "unopened"
        PROVE  HasInput /\ (Known(l[2]) \/ config.bastionAddress # "")
    BY <2>7 DEF RunInv, RouteInv, Fits, Settled
  <2> QED  BY <2>5, <2>6, <2>7
<1> QED  BY <1>1, RunInvAlways, PTL

\* Whatever the fleet and the command: when a line is printed it is the only one, no other
\* instance has a job that could be run, and it goes the way and as the user of the job.
THEOREM FirstReachableIsPrinted ==
  Spec => []PrintedIsFirstReachable
<1>1. RunInv => PrintedIsFirstReachable
  <2> SUFFICES ASSUME RunInv, printed # <<>> PROVE PrintedIsFirstReachable
    BY DEF PrintedIsFirstReachable
  <2>1. PICK c : c = Current
    OBVIOUS
  <2>2. /\ phase = "0" /\ next \in DOMAIN Instances /\ printed = <<CommandLineOf(job[c])>>
        /\ c \in Hosts /\ Reachable(c) /\ \A i \in Hosts : Reachable(i) => i = c
    BY <2>1, CurrentIsHost DEF RunInv, PrintsOK
  <2>3. Len(printed) = 1 /\ printed[1] = CommandLineOf(job[c])
    BY <2>2
  <2>4. /\ printed[1].host = c /\ printed[1].user = job[c].user /\ printed[1].port = job[c].port
        /\ printed[1].way = IF job[c].bastion = "" THEN "direct" ELSE "bastion"
        /\ printed[1].as = IF job[c].bastion = "" THEN "" ELSE job[c].as
        /\ printed[1].gate = IF job[c].bastion = "" THEN 0 ELSE job[c].gate
    <3>1. printed[1] = CommandLineOf(job[c])
      BY <2>3
    <3>2. \A j : /\ CommandLineOf(j).host = Current /\ CommandLineOf(j).user = j.user
                 /\ CommandLineOf(j).port = j.port
                 /\ CommandLineOf(j).way = IF j.bastion = "" THEN "direct" ELSE "bastion"
                 /\ CommandLineOf(j).as = IF j.bastion = "" THEN "" ELSE j.as
                 /\ CommandLineOf(j).gate = IF j.bastion = "" THEN 0 ELSE j.gate
      BY DEF CommandLineOf
    <3> QED  BY <2>1, <3>1, <3>2
  <2>5. job[c].way = "direct" => job[c].bastion = ""
    BY <2>2 DEF RunInv, Made
  <2>6. job[c].bastion = "" => Known(c)
    BY <2>2 DEF RunInv, RouteInv, Fits, Settled, Reachable
  <2> QED  BY <2>2, <2>3, <2>4, <2>5, <2>6 DEF PrintedIsFirstReachable, Reachable
<1> QED  BY <1>1, RunInvAlways, PTL

-----------------------------------------------------------------------------

\* No step of a run leaves the grammar of the words.
LEMMA PlaceRun ==
  RunInv /\ PlaceInv /\ [Next]_vars => PlaceInv'
<1> SUFFICES ASSUME RunInv, PlaceInv, [Next]_vars PROVE PlaceInv'
  OBVIOUS
<1>1. CASE SetUp
  BY <1>1, PlaceStep DEF SetUp, RunInv
<1>2. CASE UNCHANGED vars
  <2>1. UNCHANGED <<phase, args, sopts>> /\ AllWords' = AllWords
    BY <1>2 DEF vars, lineVars, AllWords
  <2> QED  BY <2>1 DEF PlaceInv
<1>3. ASSUME LineStays, phase \notin {"file", "options"} \cup Ended, phase' \notin {"file", "options"}
      PROVE  PlaceInv'
  BY <1>3, PlaceStays DEF LineStays
<1>4. CASE FindBastion \/ NoBastionFound \/ BastionFails \/ NoBastion
  <2>1. phase = "ready" /\ phase' \in {"loop", "1"} /\ LineStays
    BY <1>4, Zenon DEF FindBastion, NoBastionFound, BastionFails, NoBastion, Lookup, ConfigStays
  <2> QED  BY <2>1, <1>3 DEF Ended
<1>5. CASE Loop \/ Finish \/ Return
  <2>1. /\ phase \in {"loop", "filter", "call", "build", "print", "end"}
        /\ phase' \notin {"file", "options"} /\ LineStays
    BY <1>5 DEF Loop, ReadInstance, AskNetwork, Evaluate, CallIsPublic, IsPublicReturns,
       EvaluationFails, ContextDone, Decide, NextInstance, BuildAsUser, BuildAsDefaultUser, Build, Take,
       PrintConf, PrintFails, Finish, Return, At, ConfigStays
  <2> QED  BY <2>1, <1>3 DEF Ended
<1> QED  BY <1>1, <1>2, <1>4, <1>5 DEF Next

\* Whatever words the option file and the command line have, in whatever clusters: if the
\* file holds options and their arguments only, what is selected and run is what the
\* command line says alone.
THEOREM OptionFileIsApart ==
  Spec => []FileIsApart
<1>1. Init => PlaceInv
  BY DEF Init, LineInit, PlaceInv
<1>2. RunInv /\ PlaceInv => FileIsApart
  BY PlaceMeansApart DEF RunInv
<1> QED  BY <1>1, <1>2, RunInvAlways, PlaceRun, PTL DEF Spec
=============================================================================
