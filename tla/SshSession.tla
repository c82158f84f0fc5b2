------------------------------ MODULE SshSession ------------------------------
(***************************************************************************)
(* SshSession of src/ssh.go: a fixed pool of workers that take jobs from   *)
(* the unbuffered channel input.  A worker runs a job with doSSH, leaves   *)
(* the result with a goroutine that offers it on the job's own channel and *)
(* takes the next job.  The caller's side of the job (its collector and    *)
(* the printing) is in module Pssh; stage follows the job through both.    *)
(***************************************************************************)

CONSTANTS
  Jobs,        \* the jobs that can be built
  SshWorkers,  \* the workers of the session
  NoJob        \* what an idle worker is doing

VARIABLES
  stage,   \* stage[j]: "new", "offered", "running", "finished", "held", "printed"
  doing,   \* doing[w]: the job worker w is running, or NoJob
  live,    \* the workers that have not left their loop
  input    \* the channel input: "open" or "closed"

sshVars == <<stage, doing, live, input>>

Init ==
  /\ stage = [j \in Jobs |-> "new"]
  /\ doing = [w \in SshWorkers |-> NoJob]
  /\ live = SshWorkers
  /\ input = "open"

\* Run: the caller blocks offering a job.
Offer(j) ==
  /\ stage[j] = "new"
  /\ stage' = [stage EXCEPT ![j] = "offered"]
  /\ UNCHANGED <<doing, live, input>>

\* An idle worker receives the job that is offered.
Take(w, j) ==
  /\ w \in live /\ doing[w] = NoJob
  /\ stage[j] = "offered"
  /\ stage' = [stage EXCEPT ![j] = "running"]
  /\ doing' = [doing EXCEPT ![w] = j]
  /\ UNCHANGED <<live, input>>

\* doSSH returns, with an error or without; a goroutine offers the result on the
\* job's channel and the worker is free again.
Finish(w) ==
  /\ doing[w] # NoJob
  /\ stage' = [stage EXCEPT ![doing[w]] = "finished"]
  /\ doing' = [doing EXCEPT ![w] = NoJob]
  /\ UNCHANGED <<live, input>>

\* The caller receives the result from the job's channel.
Collect(j) ==
  /\ stage[j] = "finished"
  /\ stage' = [stage EXCEPT ![j] = "held"]
  /\ UNCHANGED <<doing, live, input>>

\* Variant: Close waits for the workers without closing the channel.
CloseInputForgotten == UNCHANGED sshVars

\* The first half of Close.
CloseInput ==
  /\ input' = "closed"
  /\ UNCHANGED <<stage, doing, live>>

\* The worker's range over the closed channel ends.
Leave(w) ==
  /\ w \in live /\ doing[w] = NoJob
  /\ input = "closed"
  /\ live' = live \ {w}
  /\ UNCHANGED <<stage, doing, input>>

\* The second half of Close, workerGroup.Wait, returns.
AllLeft == live = {}

Worker(w) == Finish(w) \/ Leave(w)
=============================================================================
