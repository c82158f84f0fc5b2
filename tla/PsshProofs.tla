------------------------------ MODULE PsshProofs ------------------------------
(***************************************************************************)
(* Theorems about Pssh, for every number of workers, every account that    *)
(* fits the offset of its pages and every limit.  What is known of the     *)
(* listing is taken from ListInstancesProofs.                              *)
(***************************************************************************)
EXTENDS Pssh, FiniteSetTheorems, TLAPS

LP == INSTANCE ListInstancesProofs
  WITH MaxChanges <- 0, file <- [o \in 0 .. Wrap - 1 |-> None], noCache <- TRUE, began <- 1

-----------------------------------------------------------------------------
(***************************************************************************)
(* The inductive invariant: main counts what it has read, uses only what   *)
(* it counted, and has read everything when its loop is over below the     *)
(* limit.                                                                  *)
(***************************************************************************)

\* There is one fleet, whose instances are numbered in order.
OneFleet == \E n \in Totals : fleets = << [k \in 1 .. n |-> k - 1] >>

RestTypes ==
  /\ stage \in [Ids -> {"new", "offered", "running", "finished", "held", "printed"}]
  /\ doing \in [SshWorkers -> Ids \cup {NoJob}]
  /\ live \subseteq SshWorkers
  /\ input \in {"open", "closed"}
  /\ kind \in [0 .. total - 1 -> Kinds]
  /\ limit \in Nat
  /\ printMode \in BOOLEAN
  /\ pc \in {"stdin", "range", "run", "drain", "close"}
  /\ inputFile \in BOOLEAN
  /\ tmp \in {"none", "kept", "removed"}
  /\ closer \in {"none", "waiting", "closed"}
  /\ exit \in {"none", "0", "1"}

\* The instances main has read and selected.
Seen == {i \in 0 .. total - 1 : got[i] > 0 /\ Selected(i)}

CountOK ==
  /\ matched = Cardinality(Seen)
  /\ pc \in {"stdin", "range", "run"} => matched <= limit

\* The jobs are of instances that were selected, all of them below the limit.
UsedOK ==
  /\ \A j \in Ids : stage[j] # "new" => j \in Seen /\ kind[j] = "ok" /\ ~printMode
  /\ ~printMode /\ matched <= limit => \A i \in Seen : kind[i] = "ok" => stage[i] # "new"
  /\ WithinLimit

\* A worker runs a job that is running, and nobody else does.
WorkersOK ==
  /\ \A w \in SshWorkers : doing[w] # NoJob => stage[doing[w]] = "running"
  /\ \A v, w \in SshWorkers : doing[v] = doing[w] /\ doing[v] # NoJob => v = w

PhasesOK ==
  /\ closer # "none" <=> pc \in {"drain", "close"}
  /\ closer = "closed" => Counted = {}
  /\ pc = "close" => closer = "closed"
  /\ input = "closed" => pc = "close"
  /\ exit = "0" /\ ~printMode => pc = "close"
  /\ pc \in {"drain", "close"} /\ matched <= limit => \A i \in 0 .. total - 1 : got[i] > 0

PsshInv ==
  /\ LP!ListInv /\ OneFleet /\ RestTypes
  /\ CountOK /\ UsedOK /\ WorkersOK /\ PhasesOK

-----------------------------------------------------------------------------
(***************************************************************************)
(* The listing                                                             *)
(***************************************************************************)

LEMMA Constants == LP!ListAssumption
<1> QED  BY PsshAssumption DEF LP!ListAssumption

\* The goroutines and the reader of ListInstances do what that module says they do.
LEMMA ListMoves ==
  ASSUME LP!ListInv,
         List!ListStep \/ (\E i \in Ids : List!Receive(i)) \/ UNCHANGED listVars
  PROVE  LP!ListInv'
<1>1. (\E i \in Ids : List!Receive(i)) => LP!Next
  BY DEF LP!Next, List!Receive, LP!Receive, LP!Ids, Ids, List!Outside, LP!Outside
<1>2. List!ListStep => LP!Next
  <2>1. List!LoadPage => LP!ListStep
    BY DEF LP!ListStep, List!LoadPage, LP!LoadPage, List!FromFile, LP!FromFile
  <2>2. List!Begin => LP!Begin
    BY DEF List!Begin, LP!Begin, List!Now, LP!Now
  <2>3. List!AskPage => LP!AskPage
    <3>1. List!FromFile <=> LP!FromFile
      BY DEF List!FromFile, LP!FromFile
    <3>2. List!Answer(offset) = LP!Answer(offset)
      BY DEF List!Answer, LP!Answer, List!Page, LP!Page, List!Fleet, LP!Fleet, List!Now, LP!Now
    <3>3. \A a : List!Process(a) <=> LP!Process(a)
      BY DEF List!Process, LP!Process, List!Turn, LP!Turn, List!Full, LP!Full,
             List!Ids, LP!Ids, List!Cardinality, LP!Cardinality
    <3> QED  BY <3>1, <3>2, <3>3 DEF List!AskPage, LP!AskPage
  <2>4. List!ListFails => LP!ListFails
    BY DEF List!ListFails, LP!ListFails, List!FromFile, LP!FromFile, List!Outside, LP!Outside
  <2>5. List!CloseChan => LP!CloseChan
    BY DEF List!CloseChan, LP!CloseChan, List!Ids, LP!Ids, List!Outside, LP!Outside
  <2>6. (\E i \in List!Ids : List!Send(i)) => (\E i \in LP!Ids : LP!Send(i))
    BY DEF List!Send, LP!Send, List!Ids, LP!Ids, List!Outside, LP!Outside
  <2> QED  BY <2>1, <2>2, <2>3, <2>4, <2>5, <2>6 DEF List!ListStep, LP!ListStep, LP!Next
<1>3. UNCHANGED listVars => UNCHANGED LP!listVars
  BY DEF listVars, LP!listVars, LP!cloudVars
<1>4. LP!ListInv /\ [LP!Next]_(LP!listVars) => LP!ListInv'
  BY Constants, LP!NextInv
<1> QED  BY <1>1, <1>2, <1>3, <1>4

\* What the listing tells main: an instance comes once, and all of them come.
LEMMA ListFacts ==
  ASSUME LP!ListInv, OneFleet
  PROVE  /\ total \in Nat /\ 0 .. total - 1 \subseteq Ids /\ IsFiniteSet(0 .. total - 1)
         /\ \A i \in Ids : got[i] \in Nat
         /\ \A i \in Ids : buf = i => i \in 0 .. total - 1 /\ got[i] = 0
         /\ List!Exhausted => \A i \in 0 .. total - 1 : got[i] > 0
<1>1. PICK n \in Totals : fleets = << [k \in 1 .. n |-> k - 1] >>
  BY DEF OneFleet
<1>2. n \in Nat /\ n <= MaxIds /\ n < List!TooMany /\ MaxIds \in Nat /\ None \notin Nat
  BY PsshAssumption
<1>3. fleets[1] = [k \in 1 .. n |-> k - 1] /\ Len(fleets) = 1
  BY <1>1
<1>4. total = n
  BY <1>2, <1>3 DEF total
<1>5. LP!Now = 1 /\ DOMAIN fleets = {1}
  BY <1>1, <1>3 DEF LP!Now
<1>6. LP!Members(1) = 0 .. n - 1
  <2>1. \A x \in 0 .. n - 1 : x + 1 \in 1 .. n /\ fleets[1][x + 1] = x
    BY <1>2, <1>3
  <2>2. \A k \in 1 .. n : fleets[1][k] \in 0 .. n - 1
    BY <1>2, <1>3
  <2>3. DOMAIN fleets[1] = 1 .. n
    BY <1>3
  <2> QED  BY <2>1, <2>2, <2>3 DEF LP!Members
<1>7. LP!Fits
  BY <1>2, <1>4, <1>5 DEF LP!Fits, LP!TooMany, List!TooMany, total
<1>8. \A e \in 2 .. LP!Now : LP!Members(e - 1) \subseteq LP!Members(e)
  BY <1>5
<1>9. /\ \A i \in LP!Ids : LP!Listed(i) <= 1
      /\ LP!Exhausted => \A i \in 0 .. n - 1 : got[i] = 1
  BY <1>6, <1>7, <1>8, Constants, LP!GrowingLists DEF LP!GrowthIsHarmless
<1>10. \A i \in Ids : got[i] \in Nat /\ senders[i] \in Nat
  BY DEF LP!ListInv, LP!RestOK, LP!Ids, Ids
<1>11. ASSUME NEW i \in Ids, buf = i PROVE i \in 0 .. n - 1 /\ got[i] = 0
  <2>1. i # None /\ i \in LP!Ids
    BY <1>2 DEF Ids, LP!Ids
  <2>2. LP!Listed(i) = senders[i] + got[i] + 1
    BY <1>11 DEF LP!Listed
  <2>3. got[i] = 0 /\ LP!Listed(i) > 0
    BY <1>9, <1>10, <2>1, <2>2
  <2>4. PICK e \in 1 .. LP!Now : i \in LP!Members(e)
    BY <2>1, <2>3 DEF LP!ListInv, LP!NoCacheIsFresh
  <2>5. e = 1
    BY <1>5
  <2> QED  BY <1>6, <2>3, <2>4, <2>5
<1>12. List!Exhausted => LP!Exhausted
  BY DEF List!Exhausted, LP!Exhausted
<1>13. 0 .. n - 1 \subseteq Ids /\ IsFiniteSet(0 .. n - 1)
  BY <1>2, FS_Interval DEF Ids
<1> QED  BY <1>2, <1>4, <1>9, <1>10, <1>11, <1>12, <1>13

\* The program starts with nothing read and nothing used.
LEMMA InitInv ==
  Init => PsshInv
<1> SUFFICES ASSUME Init PROVE PsshInv
  OBVIOUS
<1>1. LP!ListInv
  <2>1. List!Init => LP!Init
    BY DEF List!Init, LP!Init, List!Ids, LP!Ids
  <2> QED  BY <2>1, Constants, LP!InitInv DEF Init
<1>2. OneFleet
  BY DEF Init, List!Init, OneFleet
<1>3. RestTypes
  BY PsshAssumption DEF Init, Ssh!Init, RestTypes
<1>4. total \in Nat /\ 0 .. total - 1 \subseteq Ids /\ \A i \in Ids : got[i] = 0
  BY <1>1, <1>2, ListFacts DEF Init, List!Init, List!Ids, Ids
<1>5. Seen = {}
  BY <1>4 DEF Seen
<1>6. Used = {}
  BY DEF Init, Ssh!Init, Used
<1>7. Cardinality({}) = 0
  BY FS_EmptySet
<1>8. CountOK /\ UsedOK
  BY <1>3, <1>5, <1>6, <1>7 DEF Init, Ssh!Init, CountOK, UsedOK, WithinLimit, RestTypes
<1>9. WorkersOK
  BY DEF Init, Ssh!Init, WorkersOK
<1>10. PhasesOK
  BY DEF Init, Ssh!Init, PhasesOK
<1> QED  BY <1>1, <1>2, <1>3, <1>8, <1>9, <1>10 DEF PsshInv

-----------------------------------------------------------------------------
(***************************************************************************)
(* The loop over the instances                                             *)
(***************************************************************************)

\* The jobs are no more than what main has counted.
LEMMA UsedSize ==
  ASSUME PsshInv
  PROVE  /\ IsFiniteSet(Seen) /\ IsFiniteSet(Used)
         /\ matched \in Nat /\ Cardinality(Used) \in Nat /\ Cardinality(Used) <= matched
<1>1. IsFiniteSet(0 .. total - 1)
  BY ListFacts DEF PsshInv
<1>2. IsFiniteSet(Seen)
  BY <1>1, FS_Subset DEF Seen
<1>3. Used \subseteq Seen
  BY DEF PsshInv, UsedOK, Used
<1> QED  BY <1>2, <1>3, FS_Subset, FS_CardinalityType DEF PsshInv, CountOK

\* What main receives is new to it.
LEMMA ReadOne ==
  ASSUME PsshInv, NEW i \in Ids, ReadInstance(i)
  PROVE  /\ LP!ListInv' /\ OneFleet' /\ fleets' = fleets /\ total' = total
         /\ i \in 0 .. total - 1 /\ kind[i] \in Kinds
         /\ stage[i] = "new"
         /\ Seen' = IF Selected(i) THEN Seen \cup {i} ELSE Seen
         /\ Cardinality(Seen') = IF Selected(i) THEN matched + 1 ELSE matched
         /\ \A j \in Ids : got[j] > 0 => got'[j] > 0
<1>1. List!Receive(i) /\ kind' = kind /\ pc = "range"
  BY DEF ReadInstance, options
<1>2. fleets' = fleets /\ buf = i /\ got' = [got EXCEPT ![i] = @ + 1]
  BY <1>1 DEF List!Receive, List!Outside
<1>3. LP!ListInv' /\ OneFleet' /\ total' = total
  BY <1>1, <1>2, ListMoves DEF PsshInv, OneFleet, total
<1>4. /\ total \in Nat /\ 0 .. total - 1 \subseteq Ids
      /\ i \in 0 .. total - 1 /\ got[i] = 0 /\ \A j \in Ids : got[j] \in Nat
  BY <1>2, ListFacts DEF PsshInv
<1>5. DOMAIN got = Ids
  BY DEF PsshInv, LP!ListInv, LP!RestOK, LP!Ids, Ids
<1>6. \A j \in Ids : got'[j] = IF j = i THEN 1 ELSE got[j]
  BY <1>2, <1>4, <1>5
<1>7. i \notin Seen /\ stage[i] = "new"
  BY <1>4 DEF Seen, PsshInv, UsedOK
<1>8. Seen' = IF Selected(i) THEN Seen \cup {i} ELSE Seen
  BY <1>1, <1>3, <1>4, <1>6 DEF Seen, Selected
<1>9. Cardinality(Seen \cup {i}) = matched + 1
  BY <1>7, UsedSize, FS_AddElement DEF PsshInv, CountOK
<1>10. kind[i] \in Kinds
  BY <1>4 DEF PsshInv, RestTypes
<1> QED  BY <1>2, <1>3, <1>4, <1>6, <1>7, <1>8, <1>9, <1>10 DEF PsshInv, CountOK

\* Instances that are passed over.
LEMMA SkipStep ==
  ASSUME PsshInv, NEW i \in Ids, Skip(i) \/ EvaluationFails(i)
  PROVE  PsshInv'
<1>1. ReadInstance(i) /\ ~Selected(i) /\ pc = "range"
  BY DEF Skip, EvaluationFails, ReadInstance, Selected
<1>2. LP!ListInv' /\ OneFleet' /\ total' = total /\ Seen' = Seen
  BY <1>1, ReadOne
<1>3. UNCHANGED <<stage, doing, live, input, options, fileVars, pc, matched, closer>> /\ exit' \in {exit, "1"}
  BY <1>1 DEF Skip, EvaluationFails, ReadInstance, sshVars, mainVars
<1>4. RestTypes'
  BY <1>2, <1>3 DEF PsshInv, RestTypes, options, fileVars
<1>5. CountOK' /\ UsedOK'
  BY <1>2, <1>3 DEF PsshInv, CountOK, UsedOK, options, WithinLimit, Used
<1>6. WorkersOK' /\ PhasesOK'
  BY <1>1, <1>3 DEF PsshInv, WorkersOK, PhasesOK, options, Counted
<1> QED  BY <1>2, <1>4, <1>5, <1>6 DEF PsshInv

\* Instances that are counted and do not become jobs.
LEMMA CountStep ==
  ASSUME PsshInv, NEW i \in Ids, StopAtLimit(i) \/ CannotBuild(i) \/ PrintCommandLine(i)
  PROVE  PsshInv'
<1>1. ReadInstance(i) /\ Selected(i) /\ pc = "range" /\ matched' = matched + 1
  BY DEF StopAtLimit, CannotBuild, PrintCommandLine, ReadInstance, Selected
<1>2. /\ LP!ListInv' /\ OneFleet' /\ total' = total
      /\ Seen' = Seen \cup {i} /\ Cardinality(Seen') = matched'
  BY <1>1, ReadOne
<1>3. UNCHANGED <<stage, doing, live, input, options, fileVars>>
  BY <1>1 DEF StopAtLimit, CannotBuild, PrintCommandLine, ReadInstance, sshVars
<1>4. \/ pc' = "drain" /\ closer' = "waiting" /\ exit' = exit /\ matched' > limit
      \/ /\ pc' = pc /\ closer' = closer /\ matched' <= limit
         /\ \/ kind[i] = "lost" /\ exit' = exit
            \/ printMode /\ exit' \in {"0", "1"}
  <2>1. matched \in Nat /\ limit \in Nat
    BY UsedSize DEF PsshInv, RestTypes
  <2>2. CASE StopAtLimit(i)
    BY <1>1, <2>1, <2>2 DEF StopAtLimit, Beyond
  <2>3. CASE CannotBuild(i)
    BY <1>1, <2>1, <2>3 DEF CannotBuild, Beyond
  <2>4. CASE PrintCommandLine(i)
    BY <1>1, <2>1, <2>4 DEF PrintCommandLine, Beyond
  <2> QED  BY <2>2, <2>3, <2>4
<1>5. RestTypes'
  BY <1>2, <1>3, <1>4 DEF PsshInv, RestTypes, options, fileVars
<1>6. CountOK'
  BY <1>1, <1>2, <1>3, <1>4 DEF CountOK, options
<1>7. UsedOK'
  <2>1. matched' <= limit => matched <= limit
    BY <1>1, UsedSize DEF PsshInv, RestTypes
  <2>2. matched' <= limit => kind[i] = "lost" \/ printMode
    BY <1>1, <1>4, UsedSize DEF PsshInv, RestTypes
  <2> QED  BY <1>2, <1>3, <2>1, <2>2 DEF PsshInv, UsedOK, options, WithinLimit, Used
<1>8. WorkersOK'
  BY <1>3 DEF PsshInv, WorkersOK
<1>9. PhasesOK'
  <2>1. limit' = limit /\ printMode' = printMode /\ closer = "none" /\ input # "closed" /\ ~(exit = "0" /\ ~printMode)
    BY <1>1, <1>3 DEF PsshInv, PhasesOK, options
  <2>2. ~(matched' > limit /\ matched' <= limit)
    BY <1>1, UsedSize DEF PsshInv, RestTypes
  <2> QED  BY <1>1, <1>3, <1>4, <2>1, <2>2 DEF PhasesOK
<1> QED  BY <1>2, <1>5, <1>6, <1>7, <1>8, <1>9 DEF PsshInv

\* An instance that becomes a job is below the limit.
LEMMA RunStep ==
  ASSUME PsshInv, NEW i \in Ids, RunJob(i)
  PROVE  PsshInv'
<1>1. ReadInstance(i) /\ Selected(i) /\ pc = "range" /\ matched' = matched + 1 /\ kind[i] = "ok" /\ ~printMode
  BY DEF RunJob, ReadInstance, Selected
<1>2. /\ LP!ListInv' /\ OneFleet' /\ total' = total
      /\ Seen' = Seen \cup {i} /\ Cardinality(Seen') = matched'
  BY <1>1, ReadOne
<1>3. /\ UNCHANGED <<doing, live, input, options, fileVars, closer, exit>>
      /\ pc' = "run" /\ stage[i] = "new" /\ stage' = [stage EXCEPT ![i] = "offered"]
  BY <1>1 DEF RunJob, ReadInstance, Ssh!Offer
<1>4. matched \in Nat /\ limit \in Nat /\ matched' <= limit /\ matched <= limit
  BY <1>1, UsedSize DEF PsshInv, RestTypes, RunJob, Beyond
<1>5. stage \in [Ids -> {"new", "offered", "running", "finished", "held", "printed"}]
  BY DEF PsshInv, RestTypes
<1>6. RestTypes'
  BY <1>2, <1>3 DEF PsshInv, RestTypes, options, fileVars
<1>7. CountOK'
  BY <1>2, <1>3, <1>4 DEF CountOK, options
<1>8. UsedOK'
  <2>1. Used' = Used \cup {i}
    BY <1>3, <1>5 DEF Used
  <2>2. Cardinality(Used \cup {i}) <= Cardinality(Used) + 1
    <3>1. IsFiniteSet(Used) /\ Cardinality(Used) \in Nat
      BY UsedSize
    <3>2. Cardinality(Used \cup {i}) = IF i \in Used THEN Cardinality(Used) ELSE Cardinality(Used) + 1
      BY <3>1, FS_AddElement
    <3> QED  BY <3>1, <3>2
  <2>3. WithinLimit'
    <3>1. Cardinality(Used) \in Nat /\ Cardinality(Used) <= matched
      BY UsedSize
    <3>2. Cardinality(Used \cup {i}) \in Nat
      BY UsedSize, FS_AddElement, FS_CardinalityType
    <3> QED  BY <1>1, <1>3, <1>4, <2>1, <2>2, <3>1, <3>2 DEF WithinLimit, options
  <2>4. \A j \in Ids : stage'[j] = IF j = i THEN "offered" ELSE stage[j]
    BY <1>3, <1>5
  <2>5. \A j \in Ids : stage[j] # "new" => j \in Seen /\ kind[j] = "ok" /\ ~printMode
    BY DEF PsshInv, UsedOK
  <2>6. \A j \in Seen : kind[j] = "ok" => stage[j] # "new"
    BY <1>1, <1>4 DEF PsshInv, UsedOK
  <2>7. Seen \subseteq Ids
    BY ListFacts DEF PsshInv, Seen
  <2> QED  BY <1>1, <1>2, <1>3, <2>3, <2>4, <2>5, <2>6, <2>7 DEF UsedOK, options
<1>9. WorkersOK'
  BY <1>3, <1>5 DEF PsshInv, WorkersOK, RestTypes
<1>10. PhasesOK'
  BY <1>1, <1>3 DEF PsshInv, PhasesOK, options
<1> QED  BY <1>2, <1>6, <1>7, <1>8, <1>9, <1>10 DEF PsshInv

-----------------------------------------------------------------------------
(***************************************************************************)
(* The steps that read nothing                                             *)
(***************************************************************************)

\* The part of the invariant that such a step leaves as it is.
LEMMA NotReading ==
  ASSUME PsshInv, List!ListStep \/ UNCHANGED listVars,
         UNCHANGED <<options, matched>>
  PROVE  /\ LP!ListInv' /\ OneFleet' /\ fleets' = fleets /\ total' = total
         /\ got' = got /\ Seen' = Seen
<1>1. fleets' = fleets /\ got' = got
  BY DEF listVars, List!ListStep, List!Begin, List!LoadPage, List!AskPage, List!Process, List!Turn,
         List!ListFails, List!CloseChan, List!Send, List!Outside
<1> QED  BY <1>1, ListMoves DEF PsshInv, OneFleet, total, Seen, Selected, options

\* The goroutines of the listing, and main before its loop.
LEMMA ListerStep ==
  ASSUME PsshInv, Lister \/ ReadStdin
  PROVE  PsshInv'
<1>1. /\ List!ListStep \/ UNCHANGED listVars
      /\ UNCHANGED <<stage, doing, live, input, options, matched, closer>>
      /\ exit' \in {exit, "1"}
      /\ pc' = pc \/ (pc = "stdin" /\ pc' = "range")
  BY DEF Lister, ReadStdin, sshVars, mainVars
<1>2. inputFile' \in BOOLEAN /\ tmp' \in {"none", "kept", "removed"}
  BY DEF Lister, ReadStdin, fileVars, PsshInv, RestTypes
<1>3. LP!ListInv' /\ OneFleet' /\ total' = total /\ got' = got /\ Seen' = Seen
  BY <1>1, NotReading
<1>4. RestTypes'
  BY <1>1, <1>2, <1>3 DEF PsshInv, RestTypes, options
<1>5. CountOK' /\ UsedOK'
  BY <1>1, <1>3 DEF PsshInv, CountOK, UsedOK, options, WithinLimit, Used
<1>6. WorkersOK' /\ PhasesOK'
  BY <1>1, <1>3 DEF PsshInv, WorkersOK, PhasesOK, options, Counted
<1> QED  BY <1>3, <1>4, <1>5, <1>6 DEF PsshInv

\* A job goes from main to a worker.
LEMMA HandOverStep ==
  ASSUME PsshInv, NEW w \in SshWorkers, NEW j \in Ids, HandOver(w, j)
  PROVE  PsshInv'
<1>1. /\ UNCHANGED listVars /\ UNCHANGED <<live, input, options, matched, closer, fileVars, exit>>
      /\ pc = "run" /\ pc' = "range"
      /\ doing[w] = NoJob /\ stage[j] = "offered"
      /\ stage' = [stage EXCEPT ![j] = "running"] /\ doing' = [doing EXCEPT ![w] = j]
  BY DEF HandOver, Ssh!Take
<1>2. LP!ListInv' /\ OneFleet' /\ total' = total /\ got' = got /\ Seen' = Seen
  BY <1>1, NotReading
<1>3. RestTypes'
  BY <1>1, <1>2 DEF PsshInv, RestTypes, options, fileVars
<1>4. \A k \in Ids : stage'[k] # "new" <=> stage[k] # "new"
  BY <1>1 DEF PsshInv, RestTypes
<1>5. Used' = Used /\ Seen \subseteq Ids
  BY <1>4, ListFacts DEF Used, PsshInv, Seen
<1>6. CountOK' /\ UsedOK'
  BY <1>1, <1>2, <1>4, <1>5 DEF PsshInv, CountOK, UsedOK, options, WithinLimit
<1>7. WorkersOK'
  <2>1. \A v \in SshWorkers : doing[v] # j
    BY <1>1, PsshAssumption DEF PsshInv, WorkersOK
  <2>2. \A v \in SshWorkers : doing'[v] = IF v = w THEN j ELSE doing[v]
    BY <1>1 DEF PsshInv, RestTypes
  <2>3. \A k \in Ids : stage'[k] = IF k = j THEN "running" ELSE stage[k]
    BY <1>1 DEF PsshInv, RestTypes
  <2>4. \A v \in SshWorkers : doing[v] # NoJob => doing[v] \in Ids /\ stage[doing[v]] = "running"
    BY DEF PsshInv, RestTypes, WorkersOK
  <2>5. \A u, v \in SshWorkers : doing[u] = doing[v] /\ doing[u] # NoJob => u = v
    BY DEF PsshInv, WorkersOK
  <2> QED  BY <2>1, <2>2, <2>3, <2>4, <2>5 DEF WorkersOK
<1>8. PhasesOK'
  BY <1>1, <1>2 DEF PsshInv, PhasesOK, options
<1> QED  BY <1>2, <1>3, <1>6, <1>7, <1>8 DEF PsshInv

\* A job that goes on uses no other instance, and was counted by jobWg.
LEMMA JobGoesOn ==
  ASSUME PsshInv, NEW j \in Ids, NEW s \in {"finished", "held", "printed"},
         stage[j] \in {"running", "finished", "held"}, stage' = [stage EXCEPT ![j] = s],
         UNCHANGED <<options, matched>>, Seen' = Seen, UNCHANGED <<pc, closer>>
  PROVE  CountOK' /\ UsedOK' /\ Counted # {}
<1>1. \A k \in Ids : stage'[k] = IF k = j THEN s ELSE stage[k]
  BY DEF PsshInv, RestTypes
<1>2. Used' = Used /\ Seen \subseteq Ids
  BY <1>1, ListFacts DEF Used, PsshInv, Seen
<1>3. CountOK'
  BY DEF PsshInv, CountOK, options
<1>4. UsedOK'
  BY <1>1, <1>2 DEF PsshInv, UsedOK, options, WithinLimit
<1>5. j \in Counted
  BY DEF Counted
<1> QED  BY <1>3, <1>4, <1>5

\* A worker finishes its job or leaves.
LEMMA WorkerStep ==
  ASSUME PsshInv, NEW w \in SshWorkers, SshWorker(w)
  PROVE  PsshInv'
<1>1. UNCHANGED listVars /\ UNCHANGED <<options, mainVars, fileVars, exit>> /\ UNCHANGED <<pc, matched, closer>>
  BY DEF SshWorker, mainVars
<1>2. LP!ListInv' /\ OneFleet' /\ total' = total /\ got' = got /\ Seen' = Seen
  BY <1>1, NotReading
<1>3. CASE Ssh!Finish(w)
  <2> DEFINE j == doing[w]
  <2>1. /\ j # NoJob /\ j \in Ids /\ stage[j] = "running" /\ UNCHANGED <<live, input>>
        /\ stage' = [stage EXCEPT ![j] = "finished"] /\ doing' = [doing EXCEPT ![w] = NoJob]
    BY <1>3 DEF Ssh!Finish, PsshInv, RestTypes, WorkersOK
  <2>2. RestTypes'
    BY <1>1, <1>2, <2>1 DEF PsshInv, RestTypes, options, fileVars
  <2> HIDE DEF j
  <2>3. CountOK' /\ UsedOK' /\ Counted # {}
    BY <1>1, <1>2, <2>1, JobGoesOn
  <2>4. WorkersOK'
    <3>1. \A v \in SshWorkers : doing'[v] = IF v = w THEN NoJob ELSE doing[v]
      BY <2>1 DEF PsshInv, RestTypes
    <3>2. \A k \in Ids : stage'[k] = IF k = j THEN "finished" ELSE stage[k]
      BY <2>1 DEF PsshInv, RestTypes
    <3>3. \A v \in SshWorkers : doing[v] # NoJob => doing[v] \in Ids /\ stage[doing[v]] = "running"
      BY DEF PsshInv, RestTypes, WorkersOK
    <3>4. \A u, v \in SshWorkers : doing[u] = doing[v] /\ doing[u] # NoJob => u = v
      BY DEF PsshInv, WorkersOK
    <3>5. \A v \in SshWorkers : v # w => doing[v] # j
      BY <2>1, <3>4 DEF j
    <3> QED  BY <3>1, <3>2, <3>3, <3>4, <3>5 DEF WorkersOK
  <2>5. PhasesOK'
    BY <1>1, <1>2, <2>1, <2>3 DEF PsshInv, PhasesOK, options
  <2> QED  BY <1>2, <2>2, <2>3, <2>4, <2>5 DEF PsshInv
<1>4. CASE Ssh!Leave(w)
  <2>1. UNCHANGED <<stage, doing, input>> /\ live' \subseteq live
    BY <1>4 DEF Ssh!Leave
  <2>2. RestTypes'
    BY <1>1, <1>2, <2>1 DEF PsshInv, RestTypes, options, fileVars
  <2>3. CountOK' /\ UsedOK'
    BY <1>1, <1>2, <2>1 DEF PsshInv, CountOK, UsedOK, options, WithinLimit, Used
  <2>4. WorkersOK' /\ PhasesOK'
    BY <1>1, <1>2, <2>1 DEF PsshInv, WorkersOK, PhasesOK, options, Counted
  <2> QED  BY <1>2, <2>2, <2>3, <2>4 DEF PsshInv
<1> QED  BY <1>3, <1>4 DEF SshWorker, Ssh!Worker

\* A result comes to its collector, and from there to main.
LEMMA ResultStep ==
  ASSUME PsshInv, NEW j \in Ids, CollectResult(j) \/ PrintResult(j)
  PROVE  PsshInv'
<1>1. /\ UNCHANGED listVars
      /\ UNCHANGED <<options, fileVars, exit, doing, live, input, pc, matched, closer>>
  BY DEF CollectResult, PrintResult, Ssh!Collect, mainVars
<1>2. PICK s \in {"held", "printed"} :
        stage[j] \in {"finished", "held"} /\ stage' = [stage EXCEPT ![j] = s]
  BY DEF CollectResult, PrintResult, Ssh!Collect
<1>3. LP!ListInv' /\ OneFleet' /\ total' = total /\ got' = got /\ Seen' = Seen
  BY <1>1, NotReading
<1>4. RestTypes'
  BY <1>1, <1>2, <1>3 DEF PsshInv, RestTypes, options, fileVars
<1>5. CountOK' /\ UsedOK' /\ Counted # {}
  BY <1>1, <1>2, <1>3, JobGoesOn
<1>6. WorkersOK'
  <2>1. \A k \in Ids : stage'[k] = IF k = j THEN s ELSE stage[k]
    BY <1>2 DEF PsshInv, RestTypes
  <2>2. \A v \in SshWorkers : doing[v] # NoJob => doing[v] \in Ids /\ stage[doing[v]] = "running"
    BY DEF PsshInv, RestTypes, WorkersOK
  <2>3. \A v \in SshWorkers : doing[v] # j
    BY <1>2, <2>2, PsshAssumption
  <2> QED  BY <1>1, <2>1, <2>2, <2>3 DEF PsshInv, WorkersOK
<1>7. PhasesOK'
  BY <1>1, <1>3, <1>5 DEF PsshInv, PhasesOK, options
<1> QED  BY <1>3, <1>4, <1>5, <1>6, <1>7 DEF PsshInv

\* The end of the loop and what follows it.
LEMMA EndStep ==
  ASSUME PsshInv, RangeEnds \/ CloseResults \/ CloseSession \/ Return
  PROVE  PsshInv'
<1>1. UNCHANGED listVars /\ UNCHANGED <<stage, doing, live, options, matched, inputFile>>
  BY DEF RangeEnds, CloseResults, CloseSession, Return, Ssh!CloseInput, sshVars, mainVars, fileVars
<1>2. LP!ListInv' /\ OneFleet' /\ total' = total /\ got' = got /\ Seen' = Seen
  BY <1>1, NotReading
<1>3. /\ pc' \in {"drain", "close", pc} /\ closer' \in {"waiting", "closed", closer}
      /\ input' \in {input, "closed"} /\ exit' \in {exit, "0", "1"} /\ tmp' \in {tmp, "removed"}
  BY DEF RangeEnds, CloseResults, CloseSession, Return, Ssh!CloseInput, sshVars, mainVars, fileVars
<1>4. RestTypes'
  BY <1>1, <1>2, <1>3 DEF PsshInv, RestTypes, options
<1>5. CountOK'
  BY <1>1, <1>2, <1>3 DEF PsshInv, CountOK, options,
         RangeEnds, CloseResults, CloseSession, Return, mainVars
<1>6. UsedOK' /\ WorkersOK'
  BY <1>1, <1>2 DEF PsshInv, UsedOK, WorkersOK, options, WithinLimit, Used
<1>7. PhasesOK'
  <2>1. Counted' = Counted /\ limit' = limit /\ printMode' = printMode
    BY <1>1 DEF Counted, options
  <2>2. CASE RangeEnds
    <3>1. \A i \in 0 .. total - 1 : got[i] > 0
      BY <2>2, ListFacts DEF RangeEnds, PsshInv
    <3> QED  BY <1>1, <1>2, <2>1, <2>2, <3>1 DEF RangeEnds, PsshInv, PhasesOK, sshVars
  <2>3. CASE CloseResults
    BY <1>1, <1>2, <2>1, <2>3 DEF CloseResults, PsshInv, PhasesOK, sshVars
  <2>4. CASE CloseSession
    BY <1>1, <1>2, <2>1, <2>4 DEF CloseSession, PsshInv, PhasesOK
  <2>5. CASE Return
    BY <1>1, <1>2, <2>1, <2>5 DEF Return, PsshInv, PhasesOK, sshVars, mainVars
  <2> QED  BY <2>2, <2>3, <2>4, <2>5
<1> QED  BY <1>2, <1>4, <1>5, <1>6, <1>7 DEF PsshInv

-----------------------------------------------------------------------------
(***************************************************************************)
(* The theorems                                                            *)
(***************************************************************************)

\* Every step preserves the invariant.
LEMMA NextInv ==
  PsshInv /\ [Next]_vars => PsshInv'
<1> SUFFICES ASSUME PsshInv, [Next]_vars PROVE PsshInv'
  OBVIOUS
<1>1. ASSUME UNCHANGED vars PROVE PsshInv'
  <2>1. UNCHANGED listVars /\ UNCHANGED <<sshVars, options, mainVars, fileVars, exit, matched>>
    BY <1>1 DEF vars, mainVars
  <2>2. LP!ListInv' /\ OneFleet' /\ total' = total /\ got' = got /\ Seen' = Seen
    BY <2>1, NotReading
  <2>3. RestTypes'
    BY <2>1, <2>2 DEF PsshInv, RestTypes, sshVars, options, mainVars, fileVars
  <2>4. CountOK' /\ UsedOK'
    BY <2>1, <2>2 DEF PsshInv, CountOK, UsedOK, sshVars, options, mainVars, WithinLimit, Used
  <2>5. WorkersOK' /\ PhasesOK'
    BY <2>1, <2>2 DEF PsshInv, WorkersOK, PhasesOK, sshVars, options, mainVars, Counted
  <2> QED  BY <2>2, <2>3, <2>4, <2>5 DEF PsshInv
<1>2. ASSUME Main PROVE PsshInv'
  BY <1>2, ListerStep, EndStep, SkipStep, CountStep, RunStep, ResultStep, HandOverStep DEF Main, MainReads
<1> QED  BY <1>1, <1>2, ListerStep, EndStep, WorkerStep, ResultStep DEF Next, Dead

\* The invariant always holds.
LEMMA AlwaysPsshInv ==
  SafeSpec => []PsshInv
<1> QED  BY InitInv, NextInv, PTL DEF SafeSpec

\* Every variable has its type, and main counts no more instances than there are
\* (main.go:463-555).
THEOREM RunTypeCorrect == SafeSpec => []TypeOK
<1>1. PsshInv => TypeOK
  <2> SUFFICES ASSUME PsshInv PROVE TypeOK
    OBVIOUS
  <2>1. IsFiniteSet(Ids) /\ Seen \subseteq Ids
    <3>1. MaxIds - 1 \in Int
      BY PsshAssumption
    <3> QED  BY <3>1, ListFacts, FS_Interval DEF Ids, Seen, PsshInv
  <2>2. Cardinality(Seen) \in Nat /\ Cardinality(Ids) \in Nat /\ Cardinality(Seen) <= Cardinality(Ids)
    BY <2>1, FS_Subset, FS_CardinalityType
  <2>3. matched \in 0 .. Cardinality(Ids)
    BY <2>2 DEF PsshInv, CountOK
  <2> QED  BY <2>3 DEF PsshInv, RestTypes, TypeOK
<1> QED  BY <1>1, AlwaysPsshInv, PTL

\* No channel is closed while a goroutine may still send on it: resultChannel has no
\* collector left, the session's input no job (main.go:522-533, ssh.go:144-147).
THEOREM ChannelsAreClosedLast == SafeSpec => []ChannelsClosedLast
<1>1. PsshInv => ChannelsClosedLast
  BY DEF PsshInv, PhasesOK, RestTypes, Counted, ChannelsClosedLast, Used
<1> QED  BY <1>1, AlwaysPsshInv, PTL

\* A successful run below the limit has printed the result of every selected instance
\* that has a job (main.go:476-551).
THEOREM NobodyIsLeftOut == SafeSpec => []NoneLeftOut
<1>1. PsshInv => NoneLeftOut
  <2> SUFFICES ASSUME PsshInv, exit = "0", ~printMode, matched <= limit,
                      NEW i \in 0 .. total - 1, kind[i] = "ok"
               PROVE  stage[i] = "printed"
    BY DEF NoneLeftOut
  <2>1. Counted = {} /\ got[i] > 0
    BY DEF PsshInv, PhasesOK
  <2>2. i \in Seen
    BY <2>1 DEF Seen, Selected
  <2>3. stage[i] # "new"
    BY <2>2 DEF PsshInv, UsedOK
  <2>4. i \in Ids
    BY ListFacts DEF PsshInv
  <2> QED  BY <2>1, <2>3, <2>4 DEF PsshInv, RestTypes, Counted
<1> QED  BY <1>1, AlwaysPsshInv, PTL

\* No more than limit instances get a job, whatever is still on its way to main
\* (main.go:492-499).
THEOREM LimitIsKept == SafeSpec => []WithinLimit
<1>1. PsshInv => WithinLimit
  BY DEF PsshInv, UsedOK
<1> QED  BY <1>1, AlwaysPsshInv, PTL

-----------------------------------------------------------------------------
(***************************************************************************)
(* The program implements FanOut: a worker that takes a job starts the     *)
(* command, main that prints a result reports it.                          *)
(***************************************************************************)

Eligible == {i \in 0 .. total - 1 : kind[i] = "ok"}
Started  == {j \in Ids : stage[j] \notin {"new", "offered"}}
Reported == {j \in Ids : stage[j] = "printed"}

LEMMA SameCardinality == \A S : Run!Cardinality(S) = Cardinality(S)
<1> QED  BY DEF Run!Cardinality, Cardinality

\* A step that neither starts nor reports does nothing in FanOut unless it ends the program.
LEMMA OtherSteps ==
  ASSUME fleets' = fleets, UNCHANGED options, stage' = stage
  PROVE  /\ exit' = exit => UNCHANGED Run!vars
         /\ exit = "none" /\ exit' = "1" => Run!GiveUp
         /\ exit = "none" /\ exit' = "0" /\ Reported = Started => Run!Succeed
<1>1. Eligible' = Eligible /\ Started' = Started /\ Reported' = Reported /\ limit' = limit
  BY DEF Eligible, Started, Reported, options, total
<1> QED  BY <1>1 DEF Eligible, Started, Reported, Run!vars, Run!GiveUp, Run!Succeed

\* The worker that takes a job starts it, below the limit.
LEMMA HandOverStarts ==
  ASSUME PsshInv, exit = "none", NEW w \in SshWorkers, NEW j \in Ids, HandOver(w, j)
  PROVE  j \in Eligible /\ Run!Start(j)
<1>1. /\ fleets' = fleets /\ UNCHANGED <<options, exit>>
      /\ stage[j] = "offered" /\ stage' = [stage EXCEPT ![j] = "running"]
  BY DEF HandOver, Ssh!Take, listVars
<1>2. j \in Eligible /\ Eligible' = Eligible /\ limit' = limit
  BY <1>1 DEF PsshInv, UsedOK, Seen, Eligible, options, total
<1>3. \A k \in Ids : stage'[k] = IF k = j THEN "running" ELSE stage[k]
  BY <1>1 DEF PsshInv, RestTypes
<1>4. Started' = Started \cup {j} /\ Reported' = Reported /\ j \notin Started
  BY <1>1, <1>3 DEF Started, Reported
<1>5. Cardinality(Started) < limit
  <2>1. Started \cup {j} \subseteq Used
    BY <1>1 DEF Started, Used
  <2>2. IsFiniteSet(Used) /\ Cardinality(Used) \in Nat
    BY UsedSize
  <2>3. IsFiniteSet(Started)
    BY <2>1, <2>2, FS_Subset
  <2>4. /\ IsFiniteSet(Started \cup {j})
        /\ Cardinality(Started \cup {j}) \in Nat /\ Cardinality(Started) \in Nat
        /\ Cardinality(Started \cup {j}) <= Cardinality(Used)
    BY <2>1, <2>2, <2>3, FS_Subset, FS_CardinalityType
  <2>5. Cardinality(Started \cup {j}) = Cardinality(Started) + 1
    BY <1>4, <2>3, FS_AddElement
  <2> QED  BY <2>2, <2>4, <2>5 DEF PsshInv, UsedOK, WithinLimit, RestTypes
<1> QED  BY <1>1, <1>2, <1>4, <1>5, SameCardinality DEF Run!Start, Eligible, Started, Reported

\* main reports the result it prints.
LEMMA PrintReports ==
  ASSUME PsshInv, exit = "none", NEW j \in Ids, PrintResult(j)
  PROVE  j \in Eligible /\ Run!Report(j)
<1>1. /\ fleets' = fleets /\ UNCHANGED <<options, exit>>
      /\ stage[j] = "held" /\ stage' = [stage EXCEPT ![j] = "printed"]
  BY DEF PrintResult, listVars
<1>2. j \in Eligible /\ Eligible' = Eligible /\ limit' = limit
  BY <1>1 DEF PsshInv, UsedOK, Seen, Eligible, options, total
<1>3. \A k \in Ids : stage'[k] = IF k = j THEN "printed" ELSE stage[k]
  BY <1>1 DEF PsshInv, RestTypes
<1>4. Reported' = Reported \cup {j} /\ Started' = Started /\ j \in Started \ Reported
  BY <1>1, <1>3 DEF Started, Reported
<1> QED  BY <1>1, <1>2, <1>4 DEF Run!Report, Eligible, Started, Reported

\* Jobs on their way do nothing that FanOut sees.
LEMMA JobStutters ==
  ASSUME PsshInv, fleets' = fleets, UNCHANGED <<options, exit>>,
         NEW j \in Ids, NEW s \in {"offered", "finished", "held"}, stage' = [stage EXCEPT ![j] = s],
         IF s = "offered" THEN stage[j] = "new" ELSE stage[j] \in {"running", "finished"}
  PROVE  UNCHANGED Run!vars
<1>1. \A k \in Ids : stage'[k] = IF k = j THEN s ELSE stage[k]
  BY DEF PsshInv, RestTypes
<1>2. Started' = Started /\ Reported' = Reported
  BY <1>1 DEF Started, Reported
<1>3. Eligible' = Eligible /\ limit' = limit
  BY DEF Eligible, options, total
<1> QED  BY <1>2, <1>3 DEF Run!vars, Eligible, Started, Reported

\* Every step of the program is one of FanOut or none.
LEMMA StepImplements ==
  PsshInv /\ [Next]_vars => [Run!Next]_(Run!vars)
<1> SUFFICES ASSUME PsshInv, [Next]_vars PROVE [Run!Next]_(Run!vars)
  OBVIOUS
<1>1. CASE UNCHANGED vars
  BY <1>1, OtherSteps DEF vars, listVars, sshVars
<1>2. CASE exit = "none" /\ Lister
  <2>1. fleets' = fleets
    BY <1>2 DEF Lister, List!ListStep, List!Begin, List!LoadPage, List!AskPage, List!Process, List!Turn,
                List!ListFails, List!CloseChan, List!Send, List!Outside
  <2> QED  BY <1>2, <2>1, OtherSteps DEF Lister, sshVars, Run!Next
<1>3. CASE exit = "none" /\ \E w \in SshWorkers : SshWorker(w)
  <2>1. PICK w \in SshWorkers : SshWorker(w)
    BY <1>3
  <2>2. fleets' = fleets /\ UNCHANGED <<options, exit>>
    BY <2>1 DEF SshWorker, listVars
  <2>3. CASE Ssh!Finish(w)
    <3> DEFINE j == doing[w]
    <3>1. j \in Ids /\ stage[j] = "running" /\ stage' = [stage EXCEPT ![j] = "finished"]
      BY <2>3 DEF Ssh!Finish, PsshInv, RestTypes, WorkersOK
    <3> HIDE DEF j
    <3> QED  BY <2>2, <3>1, JobStutters
  <2>4. CASE Ssh!Leave(w)
    BY <2>2, <2>4, OtherSteps DEF Ssh!Leave
  <2> QED  BY <2>1, <2>3, <2>4 DEF SshWorker, Ssh!Worker
<1>4. CASE exit = "none" /\ \E j \in Ids : CollectResult(j)
  <2>1. PICK j \in Ids : CollectResult(j)
    BY <1>4
  <2> QED  BY <2>1, JobStutters DEF CollectResult, Ssh!Collect, listVars
<1>5. CASE exit = "none" /\ \E j \in Ids : PrintResult(j)
  BY <1>5, PrintReports DEF Run!Next, Eligible
<1>6. CASE exit = "none" /\ \E w \in SshWorkers, j \in Ids : HandOver(w, j)
  BY <1>6, HandOverStarts DEF Run!Next, Eligible
<1>7. CASE exit = "none" /\ \E i \in Ids : MainReads(i)
  <2>1. PICK i \in Ids : MainReads(i)
    BY <1>7
  <2>2. ReadInstance(i)
    BY <2>1 DEF MainReads, Skip, EvaluationFails, StopAtLimit, CannotBuild, PrintCommandLine, RunJob
  <2>3. fleets' = fleets /\ UNCHANGED options
    BY <2>2, ReadOne DEF ReadInstance
  <2>4. CASE RunJob(i)
    BY <2>3, <2>4, JobStutters DEF RunJob, Ssh!Offer
  <2>5. CASE PrintCommandLine(i)
    <3>1. Started = {} /\ Reported = {}
      BY <2>5 DEF PrintCommandLine, PsshInv, UsedOK, Started, Reported
    <3> QED  BY <1>7, <2>3, <2>5, <3>1, OtherSteps DEF PrintCommandLine, sshVars, Run!Next
  <2>6. CASE EvaluationFails(i)
    BY <1>7, <2>3, <2>6, OtherSteps DEF EvaluationFails, sshVars, Run!Next
  <2>7. CASE Skip(i) \/ StopAtLimit(i) \/ CannotBuild(i)
    BY <2>3, <2>7, OtherSteps DEF Skip, StopAtLimit, CannotBuild, sshVars
  <2> QED  BY <2>1, <2>4, <2>5, <2>6, <2>7 DEF MainReads
<1>8. CASE exit = "none" /\ Return
  <2>1. Started = Reported
    <3>1. Counted = {}
      BY <1>8 DEF Return, PsshInv, PhasesOK
    <3> QED  BY <3>1 DEF Counted, Started, Reported, PsshInv, RestTypes
  <2>2. exit' \in {"0", "1"} /\ fleets' = fleets /\ UNCHANGED options /\ stage' = stage
    BY <1>8 DEF Return, listVars, sshVars
  <2> QED  BY <1>8, <2>1, <2>2, OtherSteps DEF Run!Next
<1>9. CASE ReadStdin \/ RangeEnds \/ CloseResults \/ CloseSession
  BY <1>9, OtherSteps DEF ReadStdin, RangeEnds, CloseResults, CloseSession, Ssh!CloseInput, listVars, sshVars
<1> QED  BY <1>1, <1>2, <1>3, <1>4, <1>5, <1>6, <1>7, <1>8, <1>9 DEF Next, Main, Dead

\* But for liveness the program implements FanOut: no instance is used twice or beyond
\* the limit, and success means that every started command was reported
\* (main.go:463-555).
THEOREM RunIsFanOut == SafeSpec => Run!SafeSpec
<1>1. Init => Run!Init
  BY DEF Init, Ssh!Init, Run!Init
<1> QED  BY <1>1, StepImplements, AlwaysPsshInv, PTL DEF SafeSpec, Run!SafeSpec
=============================================================================
