--------------------------------- MODULE Pssh ---------------------------------
(***************************************************************************)
(* A run of the program: main of src/main.go reads instances from          *)
(* ListInstances, hands a job for each selected one to the SshSession, and *)
(* when it has read enough prints the results that a collector goroutine   *)
(* per job brings it.  Any goroutine may end the process with ErrQuit.     *)
(*                                                                         *)
(* The lookups in the image and network caches always return (they are     *)
(* CacheSessions, see CacheSession.tla) and are part of the step that      *)
(* needs them.  The fleet is one whose instances are listed once: it does  *)
(* not change, and its pages are not in files.                             *)
(***************************************************************************)
EXTENDS Naturals, FiniteSets, Sequences

CONSTANTS
  MaxLimit, Wrap, Totals, MaxIds, None,  \* of ListInstances
  SshWorkers, NoJob,                     \* of SshSession: Config.Parallelism workers
  Limits                                 \* the values of Config.InstanceLimits

VARIABLES
  fleets, eras, offset, lister, senders, buf, got,  \* of ListInstances
  stage, doing, live, input,  \* of SshSession
  kind,       \* kind[i]: what the program will find when it looks at instance i
  limit,      \* Config.InstanceLimits
  printMode,  \* Config.PrintMode # MODE_PSSH
  stdin,      \* "terminal" or "data": what standard input is
  pc,         \* where main is
  matched,    \* main's counter of selected instances
  inputFile,  \* inputFile # nil: the jobs get the saved standard input
  tmp,        \* the temporary file: "none", "kept" or "removed"
  closer,     \* the goroutine that closes resultChannel
  exit        \* "none" while the process lives, then its exit code

Ids == 0 .. MaxIds - 1

List == INSTANCE ListInstances
  WITH MaxChanges <- 0, file <- [o \in 0 .. Wrap - 1 |-> None], noCache <- TRUE, began <- 1

\* The number of instances of the account.
total == Len(fleets[1])

Ssh  == INSTANCE SshSession WITH Jobs <- Ids

ASSUME PsshAssumption ==
  /\ MaxLimit \in Nat \ {0} /\ Wrap \in Nat /\ MaxLimit < Wrap
  /\ MaxIds \in Nat /\ Totals \subseteq 0 .. MaxIds
  /\ None \notin Nat
  /\ SshWorkers # {} /\ NoJob \notin Ids
  /\ Limits \subseteq Nat
  /\ \A n \in Totals : n < List!TooMany

listVars == <<fleets, eras, offset, lister, senders, buf, got>>
sshVars  == <<stage, doing, live, input>>
options  == <<kind, limit, printMode, stdin>>
mainVars == <<pc, matched, closer>>
fileVars == <<inputFile, tmp>>
vars == <<listVars, sshVars, options, mainVars, fileVars, exit>>

\* An instance is a docker container or does not match the expression ("other"),
\* makes the evaluation of the expression fail, matches but has no job ("lost": it
\* needs a bastion and there is none, or its input cannot be opened), or is fine.
Kinds == {"other", "evalError", "lost", "ok"}

Init ==
  /\ List!Init
  /\ Ssh!Init
  /\ kind \in [0 .. total - 1 -> Kinds]
  /\ limit \in Limits
  /\ printMode \in BOOLEAN
  /\ stdin \in {"terminal", "data"}
  /\ pc = "stdin"
  /\ matched = 0
  /\ inputFile = FALSE
  /\ tmp = "none"
  /\ closer = "none"
  /\ exit = "none"

-----------------------------------------------------------------------------
(***************************************************************************)
(* main: the loop over the instances                                       *)
(***************************************************************************)

\* StdinFile saves standard input unless it is a terminal.  The file may not be
\* created, or not be written to its end; main ignores the error either way.
ReadStdin ==
  /\ pc = "stdin"
  /\ pc' = "range"
  /\ \/ stdin = "terminal" /\ UNCHANGED fileVars
     \/ stdin = "data" /\ inputFile' = TRUE /\ tmp' = "kept"
     \/ stdin = "data" /\ tmp' \in {"none", "kept"} /\ UNCHANGED inputFile
  /\ UNCHANGED <<listVars, sshVars, options, matched, closer, exit>>

\* The loop receives an instance.
ReadInstance(i) ==
  /\ pc = "range"
  /\ List!Receive(i)
  /\ UNCHANGED <<options, fileVars>>

Skip(i) ==
  /\ ReadInstance(i)
  /\ kind[i] = "other"
  /\ UNCHANGED <<sshVars, mainVars, exit>>

EvaluationFails(i) ==
  /\ ReadInstance(i)
  /\ kind[i] = "evalError"
  /\ exit' = "1"
  /\ UNCHANGED <<sshVars, mainVars>>

Selected(i) == kind[i] \in {"lost", "ok"}

\* Variant: the limit is compared before this instance is counted.
BeyondBeforeCount == matched > limit

\* This instance is one too many.
Beyond == matched + 1 > limit

\* The limit is reached: the loop is left and the closer starts.
StopAtLimit(i) ==
  /\ ReadInstance(i)
  /\ Selected(i) /\ Beyond
  /\ matched' = matched + 1
  /\ pc' = "drain"
  /\ closer' = "waiting"
  /\ UNCHANGED <<sshVars, exit>>

\* Variant: an instance without a job is counted twice.
CannotBuildTwice(i) ==
  /\ ReadInstance(i)
  /\ kind[i] = "lost" /\ ~Beyond
  /\ matched' = matched + 2
  /\ UNCHANGED <<sshVars, pc, closer, exit>>

\* BuildJob fails, because the instance cannot be reached or the input not be opened: it
\* was counted and is passed over with a warning.
CannotBuild(i) ==
  /\ ReadInstance(i)
  /\ kind[i] = "lost" /\ ~Beyond
  /\ matched' = matched + 1
  /\ UNCHANGED <<sshVars, pc, closer, exit>>

\* --ssh, --scp, --rsync: the command line of the first job is printed, or cannot
\* be, and the process ends.
PrintCommandLine(i) ==
  /\ ReadInstance(i)
  /\ kind[i] = "ok" /\ ~Beyond /\ printMode
  /\ matched' = matched + 1
  /\ exit' \in {"0", "1"}
  /\ UNCHANGED <<sshVars, pc, closer>>

\* jobWg.Add(1), and main blocks in SSH.Run until a worker takes the job.
RunJob(i) ==
  /\ ReadInstance(i)
  /\ kind[i] = "ok" /\ ~Beyond /\ ~printMode
  /\ matched' = matched + 1
  /\ Ssh!Offer(i)
  /\ pc' = "run"
  /\ UNCHANGED <<closer, exit>>

\* A worker takes the job; main starts its collector and goes on.
HandOver(w, j) ==
  /\ pc = "run"
  /\ Ssh!Take(w, j)
  /\ pc' = "range"
  /\ UNCHANGED <<listVars, options, matched, closer, fileVars, exit>>

\* Variant: the loop ends with the channel closed and an instance in its buffer.
RangeEndsEarly ==
  /\ pc = "range"
  /\ lister = "closed"
  /\ pc' = "drain"
  /\ closer' = "waiting"
  /\ UNCHANGED <<listVars, sshVars, options, matched, fileVars, exit>>

\* There are no more instances.
RangeEnds ==
  /\ pc = "range"
  /\ List!Exhausted
  /\ pc' = "drain"
  /\ closer' = "waiting"
  /\ UNCHANGED <<listVars, sshVars, options, matched, fileVars, exit>>

-----------------------------------------------------------------------------
(***************************************************************************)
(* Results                                                                 *)
(***************************************************************************)

\* The collector of job j receives its result and blocks on resultChannel.
CollectResult(j) ==
  /\ Ssh!Collect(j)
  /\ UNCHANGED <<listVars, options, mainVars, fileVars, exit>>

\* main receives a result from its collector and prints it; the collector ends
\* with jobWg.Done().
PrintResult(j) ==
  /\ pc = "drain"
  /\ stage[j] = "held"
  /\ stage' = [stage EXCEPT ![j] = "printed"]
  /\ UNCHANGED <<listVars, doing, live, input, options, mainVars, fileVars, exit>>

\* The jobs jobWg counts.
Counted == {j \in Ids : stage[j] \in {"offered", "running", "finished", "held"}}

\* Variant: jobWg counts a job until its collector has the result.
CloseResultsTooSoon ==
  /\ closer = "waiting"
  /\ Counted \subseteq {j \in Ids : stage[j] = "held"}
  /\ closer' = "closed"
  /\ UNCHANGED <<listVars, sshVars, options, pc, matched, fileVars, exit>>

\* jobWg.Wait returns and the closer closes resultChannel.
CloseResults ==
  /\ closer = "waiting"
  /\ Counted = {}
  /\ closer' = "closed"
  /\ UNCHANGED <<listVars, sshVars, options, pc, matched, fileVars, exit>>

\* The loop over resultChannel ends and main calls SSH.Close.
CloseSession ==
  /\ pc = "drain"
  /\ closer = "closed"
  /\ pc' = "close"
  /\ Ssh!CloseInput
  /\ UNCHANGED <<listVars, options, matched, closer, fileVars, exit>>

\* The workers are gone.  With no instance selected main ends with an error and
\* skips its deferred calls, otherwise they remove the temporary file.
Return ==
  /\ pc = "close"
  /\ Ssh!AllLeft
  /\ IF matched = 0
     THEN exit' = "1" /\ UNCHANGED tmp
     ELSE exit' = "0" /\ tmp' = IF inputFile THEN "removed" ELSE tmp
  /\ UNCHANGED <<listVars, sshVars, options, mainVars, inputFile>>

-----------------------------------------------------------------------------
(***************************************************************************)
(* Specification                                                           *)
(***************************************************************************)

\* The goroutines of ListInstances; when the API fails they end the process.
Lister ==
  /\ List!ListStep
  /\ exit' = IF lister' = "failed" THEN "1" ELSE exit
  /\ UNCHANGED <<sshVars, options, mainVars, fileVars>>

SshWorker(w) ==
  /\ Ssh!Worker(w)
  /\ UNCHANGED <<listVars, options, mainVars, fileVars, exit>>

MainReads(i) ==
  \/ Skip(i) \/ EvaluationFails(i) \/ StopAtLimit(i)
  \/ CannotBuild(i) \/ PrintCommandLine(i) \/ RunJob(i)

Main ==
  \/ ReadStdin \/ RangeEnds \/ CloseSession \/ Return
  \/ \E i \in Ids : MainReads(i) \/ PrintResult(i)
  \/ \E w \in SshWorkers, j \in Ids : HandOver(w, j)

\* The process is dead.
Dead == exit # "none" /\ UNCHANGED vars

Next ==
  \/ /\ exit = "none"
     /\ \/ Main
        \/ Lister
        \/ CloseResults
        \/ \E w \in SshWorkers : SshWorker(w)
        \/ \E j \in Ids : CollectResult(j)
  \/ Dead

\* The scheduler runs every goroutine that can run, and doSSH returns.
Fairness ==
  /\ WF_vars(exit = "none" /\ Main)
  /\ WF_vars(exit = "none" /\ Lister)
  /\ WF_vars(exit = "none" /\ CloseResults)
  /\ \A w \in SshWorkers : WF_vars(exit = "none" /\ SshWorker(w))
  /\ \A j \in Ids : WF_vars(exit = "none" /\ CollectResult(j))

SafeSpec == Init /\ [][Next]_vars

Spec == SafeSpec /\ Fairness

-----------------------------------------------------------------------------
(***************************************************************************)
(* Properties                                                              *)
(***************************************************************************)

\* Every variable has its type, and no instance is counted twice in matched.
TypeOK ==
  /\ stage \in [Ids -> {"new", "offered", "running", "finished", "held", "printed"}]
  /\ doing \in [SshWorkers -> Ids \cup {NoJob}]
  /\ live \subseteq SshWorkers
  /\ input \in {"open", "closed"}
  /\ kind \in [0 .. total - 1 -> Kinds]
  /\ pc \in {"stdin", "range", "run", "drain", "close"}
  /\ matched \in 0 .. Cardinality(Ids)
  /\ inputFile \in BOOLEAN
  /\ tmp \in {"none", "kept", "removed"}
  /\ closer \in {"none", "waiting", "closed"}
  /\ exit \in {"none", "0", "1"}

\* The jobs that were handed to the session or are being.
Used == {j \in Ids : stage[j] # "new"}

\* The channels are closed when nobody can send on them any more: resultChannel
\* when no collector has or expects a result (main.go:522-533), the session's
\* input when main offers nothing (ssh.go:144-147).
ChannelsClosedLast ==
  /\ closer = "closed" => Counted = {}
  /\ input = "closed" => pc = "close" /\ \A j \in Used : stage[j] = "printed"

\* A run that ends because the instances are exhausted has run the command on
\* every selected instance that has a job, and printed the result of each, however
\* the listing, the workers and the collectors interleave (main.go:476-551).
NoneLeftOut ==
  exit = "0" /\ ~printMode /\ matched <= limit =>
    \A i \in 0 .. total - 1 : kind[i] = "ok" => stage[i] = "printed"

\* No more than limit jobs are made, however many instances cannot be built or are
\* still on their way to main (main.go:492-499).
WithinLimit == Cardinality(Used) <= limit

Run == INSTANCE FanOut WITH
  eligible <- {i \in 0 .. total - 1 : kind[i] = "ok"},
  started  <- {j \in Ids : stage[j] \notin {"new", "offered"}},
  reported <- {j \in Ids : stage[j] = "printed"},
  outcome  <- exit

\* The program does what FanOut says: no instance is used twice or beyond the
\* limit, success means that every started command was reported, and the program
\* ends (main.go:463-555).
ImplementsFanOut == Run!Spec

\* "It can send its standard input to all Triton machine instances" (README.md:77):
\* when standard input is not a terminal, every command that runs gets it.
StdinReachesJobs ==
  stdin = "data" => \A j \in Ids : stage[j] = "running" => inputFile
=============================================================================
