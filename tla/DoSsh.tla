-------------------------------- MODULE DoSsh --------------------------------
(***************************************************************************)
(* One job of an SshSession: doSSH and sshClient of src/ssh.go.  A worker  *)
(* connects to the instance, directly or through a bastion server, starts  *)
(* a goroutine per stream to copy it, runs the command and waits for the   *)
(* copiers.  Module SshSession has this as the one step Finish.            *)
(*                                                                         *)
(* The ssh library and the remote side are the environment: any connection *)
(* step may fail, the server may refuse the command or close the channel,  *)
(* the connection may break at any time, and it does break at the          *)
(* deadline, if there is one (conn.SetDeadline).  The exit status, the end *)
(* of each stream and the end of the channel arrive one by one.  A copier  *)
(* may fail, which is only logged: when the connection breaks under it or, *)
(* if it writes to a file, at any time.  The pipes of a new session cannot *)
(* fail, and no job asks for a pseudo terminal.                            *)
(***************************************************************************)
EXTENDS Naturals, FiniteSets

VARIABLES
  bastion,   \* job.BastionConfig # nil
  dryRun,    \* job.DryRun
  deadline,  \* Config.Deadline > 0
  opts,      \* the output options: inline, stdoutOnly, outDir, errDir
  hasInput,  \* job.Input # nil
  pc,        \* where doSSH is
  open,      \* what is open: connections, the session and files
  copier,    \* copier[s]: the goroutine that copies stream s: it is not started, it is
             \* copying, it has come to the end of the stream, or it was cut short
  wg,        \* the counter of the WaitGroup
  link,      \* the TCP connection under everything: "none", "up" or "down"
  remote,    \* the remote command: "none", "running", "exited" when its status has
             \* arrived, "closed" when the end of the channel has, and "lost" when that
             \* came without a status
  saved,     \* saved[x]: the remote streams that are at sink x to their end
  result     \* the result: "none", "ok", or "error"

params == <<bastion, dryRun, deadline, opts, hasInput>>
vars == <<params, pc, open, copier, wg, link, remote, saved, result>>

Streams == {"stdin", "stdout", "stderr"}
Sinks == {"buffer", "errBuffer", "outFile", "errFile", "nowhere"}

\* What ParseOptions lets through: -i and --inline-stdout exclude -o and -e, and
\* InlineStdoutOnly is set by --inline-stdout only.
Options ==
  {o \in [inline : BOOLEAN, stdoutOnly : BOOLEAN, outDir : BOOLEAN, errDir : BOOLEAN] :
     /\ o.stdoutOnly => o.inline
     /\ o.inline => ~o.outDir /\ ~o.errDir}

Init ==
  /\ bastion \in BOOLEAN /\ dryRun \in BOOLEAN /\ deadline \in BOOLEAN
  /\ hasInput \in BOOLEAN
  /\ opts \in Options
  /\ pc = "start"
  /\ open = IF hasInput THEN {"input"} ELSE {}
  /\ copier = [s \in Streams |-> "none"]
  /\ wg = 0
  /\ link = "none"
  /\ remote = "none"
  /\ saved = [x \in Sinks |-> {}]
  /\ result = "none"

-----------------------------------------------------------------------------
(***************************************************************************)
(* Connecting                                                              *)
(***************************************************************************)

\* The deferred calls of doSSH that the point reached has registered: Close of the
\* session, of the client, which closes what it is connected by, and of job.Input.
Deferred ==
  {"input"}
    \cup (IF "server" \in open THEN {"server", "tunnel"} ELSE {})
    \cup (IF "session" \in open THEN {"session"} ELSE {})

\* doSSH returns r, having closed what it closes itself and what is deferred.
Return(r, closes) ==
  /\ pc' = "returned"
  /\ result' = r
  /\ open' = open \ (closes \cup Deferred)

DryRun ==
  /\ pc = "start" /\ dryRun
  /\ Return("ok", {})
  /\ UNCHANGED <<params, copier, wg, link, remote, saved>>

\* sshClient: dial and shake hands with the bastion or with the instance.
Dial ==
  /\ pc = "start" /\ ~dryRun
  /\ \/ /\ link' = "up"
        /\ pc' = IF bastion THEN "bastion" ELSE "connected"
        /\ open' = open \cup {IF bastion THEN "bastion" ELSE "server"}
        /\ UNCHANGED result
     \/ /\ Return("error", {})
        /\ UNCHANGED link
  /\ UNCHANGED <<params, copier, wg, remote, saved>>

\* client.Dial: a channel through the bastion to the instance.
Tunnel ==
  /\ pc = "bastion"
  /\ \/ /\ link = "up"
        /\ pc' = "tunnel" /\ open' = open \cup {"tunnel"}
        /\ UNCHANGED result
     \/ Return("error", {"bastion"})
  /\ UNCHANGED <<params, copier, wg, link, remote, saved>>

\* Variant: a failed handshake closes the channel and leaves the bastion.
ShakeHandsLeak ==
  /\ pc = "tunnel"
  /\ \/ /\ link = "up"
        /\ pc' = "connected" /\ open' = open \cup {"server"}
        /\ UNCHANGED result
     \/ Return("error", {"tunnel"})
  /\ UNCHANGED <<params, copier, wg, link, remote, saved>>

\* ssh.NewClientConn over that channel.  client is now the instance's: the variable
\* no longer holds the bastion's.
ShakeHands ==
  /\ pc = "tunnel"
  /\ \/ /\ link = "up"
        /\ pc' = "connected" /\ open' = open \cup {"server"}
        /\ UNCHANGED result
     \/ Return("error", {"tunnel", "bastion"})
  /\ UNCHANGED <<params, copier, wg, link, remote, saved>>

\* NewSession and its pipes, one count of the WaitGroup for each.
OpenSession ==
  /\ pc = "connected"
  /\ \/ /\ link = "up"
        /\ pc' = "copiers" /\ open' = open \cup {"session"}
        /\ wg' = IF hasInput THEN 3 ELSE 2
        /\ UNCHANGED result
     \/ Return("error", {}) /\ UNCHANGED wg
  /\ UNCHANGED <<params, copier, link, remote, saved>>

-----------------------------------------------------------------------------
(***************************************************************************)
(* Copying and running                                                     *)
(***************************************************************************)

\* The goroutines of these copiers are started.
Start(streams) ==
  copier' = [s \in Streams |-> IF s \in streams THEN "copying" ELSE copier[s]]

\* stdin is copied if there is input.
InputStream == IF hasInput THEN {"stdin"} ELSE {}

\* Inline output: every copier is started.
StartInline ==
  /\ pc = "copiers" /\ opts.inline
  /\ Start({"stdout", "stderr"} \cup InputStream)
  /\ pc' = "run"
  /\ UNCHANGED <<params, open, wg, link, remote, saved, result>>

\* The copier of stdin is started, then a file is created for stdout if it is to be
\* saved; if it cannot be, doSSH returns.
StartOut ==
  /\ pc = "copiers" /\ ~opts.inline
  /\ \/ /\ Start({"stdout"} \cup InputStream)
        /\ pc' = "errFile"
        /\ open' = open \cup IF opts.outDir THEN {"outFile"} ELSE {}
        /\ UNCHANGED result
     \/ /\ opts.outDir
        /\ Start(InputStream)
        /\ Return("error", {})
  /\ UNCHANGED <<params, wg, link, remote, saved>>

\* The same for stderr.
StartErr ==
  /\ pc = "errFile"
  /\ \/ /\ Start({"stderr"})
        /\ pc' = "run"
        /\ open' = open \cup IF opts.errDir THEN {"errFile"} ELSE {}
        /\ UNCHANGED result
     \/ /\ opts.errDir
        /\ Return("error", {})
        /\ UNCHANGED copier
  /\ UNCHANGED <<params, wg, link, remote, saved>>

\* session.Run starts the command, or fails: the server refuses it, or the channel or
\* the connection has gone.
StartCommand ==
  /\ pc = "run"
  /\ \/ /\ link = "up" /\ remote = "none"
        /\ pc' = "running" /\ remote' = "running"
        /\ UNCHANGED result
     \/ /\ pc' = "wait" /\ result' = "error"
        /\ UNCHANGED remote
  /\ UNCHANGED <<params, open, copier, wg, link, saved>>

\* The end of the channel has arrived.
Closed == remote \in {"closed", "lost"}

\* session.Run returns at the end of the channel, be it that the server closed it or
\* that the connection is broken.  It reports success if status 0 has arrived by then,
\* whether the output has or not.
CommandReturns ==
  /\ pc = "running"
  /\ Closed \/ link = "down"
  /\ pc' = "wait"
  /\ result' \in IF remote \in {"exited", "closed"} THEN {"ok", "error"} ELSE {"error"}
  /\ UNCHANGED <<params, open, copier, wg, link, remote, saved>>

\* Variant: doSSH returns without waiting for the copiers.
WaitNot ==
  /\ pc = "wait"
  /\ Return(result, {})
  /\ UNCHANGED <<params, copier, wg, link, remote, saved>>

\* wg.Wait returns.
Wait ==
  /\ pc = "wait"
  /\ wg = 0
  /\ Return(result, {})
  /\ UNCHANGED <<params, copier, wg, link, remote, saved>>

\* The prefix "exec 2>&1;" of the command.
Merged == ~opts.stdoutOnly

\* Where the copier of a stream puts what it reads.
Sink(s) ==
  IF s = "stdout"
  THEN IF opts.inline THEN "buffer" ELSE IF opts.outDir THEN "outFile" ELSE "nowhere"
  ELSE IF opts.inline THEN "errBuffer" ELSE IF opts.errDir THEN "errFile" ELSE "nowhere"

\* The streams of the remote command that arrive on stream s of the session.
Carries(s) ==
  IF Merged THEN IF s = "stdout" THEN {"stdout", "stderr"} ELSE {}
  ELSE {s}

\* No more of the streams arrives: the server has closed the channel, the connection is
\* broken, or the session was closed on this side.
Ended == Closed \/ link = "down" \/ "session" \notin open

\* The goroutine of stream s calls Done.
CopierEnds(s, as) ==
  /\ copier[s] = "copying"
  /\ copier' = [copier EXCEPT ![s] = as]
  /\ wg' = wg - 1
  /\ UNCHANGED <<params, pc, open, link, remote, result>>

\* A copier of output comes to the end of its stream, which a command may close before
\* it exits; what has arrived is read to its end even when the connection is broken.
OutputEnds(s) ==
  /\ s # "stdin" /\ remote # "none"
  /\ CopierEnds(s, "done")
  /\ saved' = [saved EXCEPT ![Sink(s)] = @ \cup Carries(s)]

\* Its stream breaks off before its end, or a write to its file fails: the disk is full.
OutputBreaks(s) ==
  /\ s # "stdin"
  /\ (Ended /\ ~Closed) \/ Sink(s) \in {"outFile", "errFile"}
  /\ CopierEnds(s, "cut")
  /\ UNCHANGED saved

\* Variant: the copier of stdin does not call Done.
InputEndsUncounted ==
  /\ copier["stdin"] = "copying"
  /\ copier' = [copier EXCEPT !["stdin"] = "done"]
  /\ UNCHANGED <<params, pc, open, wg, link, remote, saved, result>>

\* Variant: the copier of stdin tries again when it can send no more.
InputEndsTryingAgain ==
  /\ copier["stdin"] = "copying"
  /\ IF Ended THEN UNCHANGED vars ELSE CopierEnds("stdin", "done") /\ UNCHANGED saved

\* The copier of stdin has sent the whole input, or can send or read no more.
InputEnds == CopierEnds("stdin", "done") /\ UNCHANGED saved

\* The exit status of the command arrives, whether it has read its input or not.
RemoteExits ==
  /\ remote = "running" /\ link = "up"
  /\ remote' = "exited"
  /\ UNCHANGED <<params, pc, open, copier, wg, link, saved, result>>

\* The server closes the channel, behind the last of the output: after the exit status,
\* or without one.
RemoteCloses ==
  /\ ~Closed /\ link = "up" /\ "session" \in open
  /\ remote' = IF remote = "exited" THEN "closed" ELSE "lost"
  /\ UNCHANGED <<params, pc, open, copier, wg, link, saved, result>>

\* The connection breaks, or its deadline passes.
LinkBreaks ==
  /\ link = "up" /\ pc # "returned"
  /\ link' = "down"
  /\ UNCHANGED <<params, pc, open, copier, wg, remote, saved, result>>

-----------------------------------------------------------------------------
(***************************************************************************)
(* Specification                                                           *)
(***************************************************************************)

Worker ==
  \/ DryRun \/ Dial \/ Tunnel \/ ShakeHands \/ OpenSession
  \/ StartInline \/ StartOut \/ StartErr \/ StartCommand \/ CommandReturns \/ Wait

Copier(s) == OutputEnds(s) \/ OutputBreaks(s) \/ (s = "stdin" /\ InputEnds)

\* doSSH has returned and its goroutines have ended.
Over ==
  /\ pc = "returned"
  /\ \A s \in Streams : copier[s] # "copying"
  /\ UNCHANGED vars

Next ==
  \/ Worker \/ (\E s \in Streams : Copier(s))
  \/ RemoteExits \/ RemoteCloses \/ LinkBreaks \/ Over

\* Goroutines run, which for a copier means to the end of what has arrived; a connection
\* with a deadline does not stay up for ever.  Nothing is assumed of the server and the
\* command: it may never exit, never read its input and never close its output.
Fairness ==
  /\ WF_vars(Worker)
  /\ \A s \in Streams : WF_vars(Ended /\ Copier(s))
  /\ WF_vars(deadline /\ LinkBreaks)

Spec == Init /\ [][Next]_vars /\ Fairness

-----------------------------------------------------------------------------
(***************************************************************************)
(* Properties                                                              *)
(***************************************************************************)

\* Every variable has its type; in particular the WaitGroup's counter is that of
\* the copiers that are running once they all run, and never negative.
TypeOK ==
  /\ pc \in {"start", "bastion", "tunnel", "connected", "copiers", "errFile", "run",
             "running", "wait", "returned"}
  /\ open \subseteq {"input", "bastion", "tunnel", "server", "session", "outFile", "errFile"}
  /\ copier \in [Streams -> {"none", "copying", "done", "cut"}]
  /\ wg \in 0 .. 3
  /\ pc \in {"run", "running", "wait"} =>
       wg = Cardinality({s \in Streams : copier[s] = "copying"})
  /\ link \in {"none", "up", "down"}
  /\ remote \in {"none", "running", "exited", "closed", "lost"}
  /\ saved \in [Sinks -> SUBSET Streams]
  /\ result \in {"none", "ok", "error"}

\* On every path out of doSSH the session, the instance's connection and the job's
\* input are closed, and on the paths that do not reach the instance everything is
\* (ssh.go:169-216).  What a path beyond that leaves open is the bastion's
\* connection, whose variable was reused, and the output files.
ReturnReleases ==
  [][pc' = "returned" /\ pc # "returned" =>
       /\ open' \cap {"input", "tunnel", "server", "session"} = {}
       /\ pc \in {"start", "bastion", "tunnel"} => open' = {}]_vars

\* A job that reports success is given to the printer with no copier running, which
\* would write the buffers that are read there.  All its standard output is where the
\* options say when the server has closed the channel, whatever the order in which the
\* status, the ends of the streams and a break of the connection came, unless a write to
\* its file failed.  Nothing is said of a connection that broke after the status: the
\* job counts as a success then, with what output there was (ssh.go:371-376).
OutputComplete ==
  pc = "returned" /\ result = "ok" /\ ~dryRun =>
    /\ \A s \in Streams : copier[s] # "copying"
    /\ remote = "closed" =>
         \/ Carries("stdout") \subseteq saved[Sink("stdout")]
         \/ opts.outDir /\ copier["stdout"] = "cut"

\* With a deadline, a job ends whatever the remote side does, and leaves no
\* goroutine behind; this is what lets a worker of SshSession finish.
JobEnds ==
  deadline ~> (pc = "returned" /\ \A s \in Streams : copier[s] # "copying")

\* "By using -e ERRDIR, you can save standard error output of the command"
\* (README.md:75): a successful job with -e has it there, unless an error cut its copier
\* short.
StderrSaved ==
  pc = "returned" /\ result = "ok" /\ ~dryRun /\ opts.errDir /\ copier["stderr"] = "done" =>
    "stderr" \in saved["errFile"]
=============================================================================
