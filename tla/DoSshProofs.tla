----------------------------- MODULE DoSshProofs -----------------------------
(***************************************************************************)
(* Theorems about DoSsh: the counter of the WaitGroup, what doSSH leaves   *)
(* open, and what a successful job has saved.                              *)
(***************************************************************************)
EXTENDS DoSsh, FiniteSetTheorems, TLAPS

-----------------------------------------------------------------------------
(***************************************************************************)
(* The inductive invariant                                                 *)
(***************************************************************************)

TypesOK ==
  /\ bastion \in BOOLEAN /\ dryRun \in BOOLEAN /\ hasInput \in BOOLEAN
  /\ opts \in Options
  /\ pc \in {"start", "bastion", "tunnel", "connected", "copiers", "errFile", "run",
             "running", "wait", "returned"}
  /\ open \subseteq {"input", "bastion", "tunnel", "server", "session", "outFile", "errFile"}
  /\ copier \in [Streams -> {"none", "copying", "done", "cut"}]
  /\ link \in {"none", "up", "down"}
  /\ remote \in {"none", "running", "exited", "closed", "lost"}
  /\ saved \in [Sinks -> SUBSET Streams]
  /\ result \in {"none", "ok", "error"}

\* Where the session is open.
InSession == {"copiers", "errFile", "run", "running", "wait"}

\* The streams that have a copier, and whether that of s has still to call Done.
Expected == {"stdout", "stderr"} \cup InputStream
Left(s) == IF s \in Expected /\ copier[s] \in {"none", "copying"} THEN 1 ELSE 0

\* The copiers that were started, point by point.
CopiersOK ==
  /\ \A s \in Streams \ Expected : copier[s] = "none"
  /\ pc \in {"start", "bastion", "tunnel", "connected", "copiers"} =>
       \A s \in Streams : copier[s] = "none"
  /\ pc = "errFile" => copier["stderr"] = "none" /\ \A s \in Expected \ {"stderr"} : copier[s] # "none"
  /\ pc \in {"run", "running", "wait"} => \A s \in Expected : copier[s] # "none"

\* The counter is that of the copiers that have not called Done, started or not; without
\* a session there are none.
CounterOK ==
  LET counts == wg = Left("stdin") + Left("stdout") + Left("stderr")
      unused == wg = 0 /\ \A s \in Streams : copier[s] = "none"
  IN  /\ pc \in {"start", "bastion", "tunnel", "connected"} => unused
      /\ pc \in InSession => counts
      /\ pc = "returned" => counts \/ unused

OpenOK ==
  /\ pc = "start" => open \subseteq {"input"}
  /\ pc = "bastion" => open \subseteq {"input", "bastion"}
  /\ pc = "tunnel" => open \subseteq {"input", "bastion", "tunnel"}
  /\ pc \in {"connected"} \cup InSession => "server" \in open
  /\ pc \in InSession => "session" \in open

\* When the copier of stdout has ended, and the connection was up until the channel was
\* closed, everything is saved, unless a write to its file failed.
StdoutSaved ==
  copier["stdout"] \in {"done", "cut"} /\ (link = "up" \/ remote = "closed") =>
    \/ Carries("stdout") \subseteq saved[Sink("stdout")]
    \/ opts.outDir /\ copier["stdout"] = "cut"

SavedOK ==
  /\ pc \in InSession => StdoutSaved
  /\ pc \in {"connected"} \cup InSession => link # "none"
  /\ result # "none" => pc \in {"wait", "returned"}
  /\ pc = "returned" /\ result = "ok" /\ ~dryRun =>
       /\ StdoutSaved
       /\ copier["stdout"] \in {"done", "cut"} /\ \A s \in Streams : copier[s] # "copying"

JobInv == TypesOK /\ CopiersOK /\ CounterOK /\ OpenOK /\ SavedOK

LEMMA InitInv ==
  Init => JobInv
<1> SUFFICES ASSUME Init PROVE JobInv
  OBVIOUS
<1>1. TypesOK
  BY DEF Init, TypesOK
<1>2. CopiersOK /\ CounterOK
  BY DEF Init, CopiersOK, CounterOK, Expected, InputStream, InSession, Streams
<1>3. OpenOK /\ SavedOK
  BY DEF Init, OpenOK, SavedOK, StdoutSaved, InSession, Streams
<1> QED  BY <1>1, <1>2, <1>3 DEF JobInv

-----------------------------------------------------------------------------
(***************************************************************************)
(* Connecting                                                              *)
(***************************************************************************)

\* Until the session is opened no copier is started and nothing is counted.
LEMMA ConnectStep ==
  ASSUME JobInv, DryRun \/ Dial \/ Tunnel \/ ShakeHands
  PROVE  JobInv'
<1>1. /\ UNCHANGED <<params, copier, wg, remote, saved>>
      /\ pc \in {"start", "bastion", "tunnel"}
      /\ result = "none" /\ result' \in {"none", "ok", "error"}
      /\ (result' = "ok" => dryRun)
      /\ pc' \in {"bastion", "tunnel", "connected", "returned"}
      /\ (result' # "none" => pc' = "returned")
      /\ link' \in {"none", "up", "down"}
      /\ (pc' = "connected" => link' = "up")
  BY DEF JobInv, TypesOK, SavedOK, DryRun, Dial, Tunnel, ShakeHands, Return
<1>2. open' \subseteq open \cup {"bastion", "server", "tunnel"} /\ OpenOK'
  BY DEF JobInv, TypesOK, OpenOK, DryRun, Dial, Tunnel, ShakeHands, Return, InSession
<1>3. TypesOK'
  BY <1>1, <1>2 DEF JobInv, TypesOK, params
<1>4. CopiersOK'
  BY <1>1 DEF JobInv, CopiersOK, Expected, InputStream, params
<1>5. CounterOK'
  BY <1>1 DEF JobInv, CounterOK, InSession
<1>6. SavedOK'
  BY <1>1 DEF JobInv, SavedOK, InSession, params
<1> QED  BY <1>2, <1>3, <1>4, <1>5, <1>6 DEF JobInv

\* The counter starts with the copiers there will be.
LEMMA SessionStep ==
  ASSUME JobInv, OpenSession
  PROVE  JobInv'
<1>1. /\ UNCHANGED <<params, copier, link, remote, saved>>
      /\ pc = "connected" /\ result = "none"
      /\ \/ pc' = "copiers" /\ result' = "none" /\ open' = open \cup {"session"} /\ link = "up"
            /\ wg' = IF hasInput THEN 3 ELSE 2
         \/ pc' = "returned" /\ result' = "error" /\ open' \subseteq open /\ wg' = wg
  BY DEF JobInv, TypesOK, SavedOK, OpenSession, Return
<1>2. TypesOK' /\ OpenOK'
  BY <1>1 DEF JobInv, TypesOK, OpenOK, params, InSession
<1>3. CopiersOK'
  BY <1>1 DEF JobInv, CopiersOK, Expected, InputStream, params
<1>4. CounterOK'
  <2>1. copier["stdin"] = "none" /\ copier["stdout"] = "none" /\ copier["stderr"] = "none" /\ wg = 0
    BY <1>1 DEF JobInv, CounterOK, Streams
  <2>2. CASE pc' = "copiers"
    BY <1>1, <2>1, <2>2 DEF CounterOK, Left, Expected, InputStream, InSession, params
  <2>3. CASE pc' = "returned"
    BY <1>1, <2>1, <2>3 DEF CounterOK, InSession, Streams
  <2> QED  BY <1>1, <2>2, <2>3
<1>5. SavedOK'
  BY <1>1 DEF JobInv, SavedOK, InSession, params, CopiersOK, Streams, StdoutSaved
<1> QED  BY <1>2, <1>3, <1>4, <1>5 DEF JobInv

-----------------------------------------------------------------------------
(***************************************************************************)
(* Copying and running                                                     *)
(***************************************************************************)

\* Starting copiers, and returning in between, leaves the counter as it is.
LEMMA StartStep ==
  ASSUME JobInv, StartInline \/ StartOut \/ StartErr
  PROVE  JobInv'
<1>1. /\ UNCHANGED <<params, wg, link, remote, saved>>
      /\ pc \in {"copiers", "errFile"} /\ result = "none" /\ link # "none"
      /\ pc' \in {"errFile", "run", "returned"}
      /\ result' = IF pc' = "returned" THEN "error" ELSE "none"
      /\ IF pc' = "returned" THEN open' \subseteq open
         ELSE open \subseteq open' /\ open' \subseteq open \cup {"outFile", "errFile"}
  BY DEF JobInv, TypesOK, SavedOK, StartInline, StartOut, StartErr, Return, InSession
<1>2. PICK S \in SUBSET Expected :
        /\ \A s \in S : copier[s] = "none"
        /\ copier' = [s \in Streams |-> IF s \in S THEN "copying" ELSE copier[s]]
        /\ pc' = "run" => Expected = S \cup {s \in Expected : copier[s] # "none"}
        /\ pc' = "errFile" => S = Expected \ {"stderr"} /\ copier["stderr"] = "none"
  <2>1. CASE StartInline
    <3>1. Expected = {"stdout", "stderr"} \cup InputStream /\ Expected \subseteq Streams
      BY DEF Expected, InputStream, Streams
    <3>2. \A s \in Expected : copier[s] = "none"
      BY <2>1, <3>1 DEF StartInline, JobInv, CopiersOK
    <3> QED  BY <2>1, <3>1, <3>2 DEF StartInline, Start
  <2>2. CASE StartOut
    <3>1. \A s \in Streams : copier[s] = "none"
      BY <2>2 DEF StartOut, JobInv, CopiersOK
    <3>2. {"stdout"} \cup InputStream = Expected \ {"stderr"} /\ InputStream \subseteq Expected /\ Expected \subseteq Streams
      BY DEF Expected, InputStream, Streams
    <3>3. CASE pc' = "errFile"
      <4>1. copier' = [s \in Streams |-> IF s \in Expected \ {"stderr"} THEN "copying" ELSE copier[s]]
        BY <2>2, <3>2, <3>3 DEF StartOut, Start, Return
      <4> QED  BY <3>1, <3>2, <3>3, <4>1 DEF Streams
    <3>4. CASE pc' = "returned"
      <4>1. copier' = [s \in Streams |-> IF s \in InputStream THEN "copying" ELSE copier[s]]
        BY <2>2, <3>4 DEF StartOut, Start
      <4> QED  BY <3>1, <3>2, <3>4, <4>1
    <3> QED  BY <2>2, <3>3, <3>4 DEF StartOut, Return
  <2>3. CASE StartErr
    <3>1. copier["stderr"] = "none" /\ \A s \in Expected \ {"stderr"} : copier[s] # "none"
      BY <2>3 DEF StartErr, JobInv, CopiersOK
    <3>2. "stderr" \in Expected
      BY DEF Expected
    <3>3. CASE pc' = "run"
      <4>1. copier' = [s \in Streams |-> IF s \in {"stderr"} THEN "copying" ELSE copier[s]]
        BY <2>3, <3>3 DEF StartErr, Start, Return
      <4> QED  BY <3>1, <3>2, <3>3, <4>1
    <3>4. CASE pc' = "returned"
      <4>1. copier' = [s \in Streams |-> IF s \in {} THEN "copying" ELSE copier[s]]
        BY <2>3, <3>4 DEF StartErr, Return, JobInv, TypesOK
      <4>2. {} \in SUBSET Expected /\ \A s \in {} : copier[s] = "none"
        OBVIOUS
      <4>3. pc' # "run" /\ pc' # "errFile"
        BY <3>4
      <4> QED  BY <4>1, <4>2, <4>3
    <3> QED  BY <2>3, <3>3, <3>4 DEF StartErr, Return
  <2> QED  BY <2>1, <2>2, <2>3
<1>3. Expected' = Expected /\ Expected \subseteq Streams
  BY <1>1 DEF Expected, InputStream, params, Streams
<1>4. \A s \in Streams : copier'[s] = IF s \in S THEN "copying" ELSE copier[s]
  BY <1>2
<1>5. TypesOK' /\ OpenOK'
  <2>1. \A s \in Streams : copier'[s] \in {"none", "copying", "done", "cut"}
    BY <1>4 DEF JobInv, TypesOK
  <2>2. copier' \in [Streams -> {"none", "copying", "done", "cut"}]
    BY <1>2, <2>1
  <2> QED  BY <1>1, <2>2 DEF JobInv, TypesOK, OpenOK, params, InSession
<1>6. CopiersOK'
  BY <1>1, <1>2, <1>3, <1>4 DEF JobInv, CopiersOK, Streams
<1>7. CounterOK'
  <2>1. \A s \in Streams : Left(s)' = Left(s)
    BY <1>2, <1>3, <1>4 DEF Left
  <2>2. wg = Left("stdin") + Left("stdout") + Left("stderr")
    BY <1>1 DEF JobInv, CounterOK, InSession
  <2>3. wg' = Left("stdin")' + Left("stdout")' + Left("stderr")'
    BY <1>1, <2>1, <2>2 DEF Streams
  <2> QED  BY <1>1, <2>3 DEF CounterOK, InSession
<1>8. SavedOK'
  <2>1. Sink("stdout")' = Sink("stdout")
    BY <1>1 DEF Sink, params
  <2>2. Carries("stdout")' = Carries("stdout")
    BY <1>1 DEF Carries, Merged, params
  <2>3. StdoutSaved => StdoutSaved'
    BY <1>1, <1>4, <2>1, <2>2 DEF StdoutSaved, Streams, params
  <2> QED  BY <1>1, <2>3 DEF JobInv, SavedOK, InSession, params
<1> QED  BY <1>5, <1>6, <1>7, <1>8 DEF JobInv

\* The command runs and ends; doSSH waits until every copier has called Done.
LEMMA RunStep ==
  ASSUME JobInv, StartCommand \/ CommandReturns \/ Wait
  PROVE  JobInv'
<1>1. /\ UNCHANGED <<params, copier, wg, link, saved>>
      /\ pc \in {"run", "running", "wait"} /\ pc' \in {"running", "wait", "returned"}
      /\ link # "none"
      /\ remote' = remote \/ remote' = "running"
      /\ result' \in {"none", "ok", "error"}
  BY DEF JobInv, TypesOK, SavedOK, StartCommand, CommandReturns, Wait, Return, InSession
<1>2. TypesOK' /\ OpenOK'
  BY <1>1 DEF JobInv, TypesOK, OpenOK, params, InSession, StartCommand, CommandReturns, Wait, Return
<1>3. CopiersOK'
  BY <1>1 DEF JobInv, CopiersOK, Expected, InputStream, params
<1>4. CounterOK'
  BY <1>1 DEF JobInv, CounterOK, Left, Expected, InputStream, InSession, params
<1>5. SavedOK'
  <2>1. StdoutSaved'
    <3>1. StdoutSaved
      BY <1>1 DEF JobInv, SavedOK, InSession
    <3>2. Sink("stdout")' = Sink("stdout") /\ Carries("stdout")' = Carries("stdout") /\ opts' = opts
      BY <1>1 DEF Sink, Carries, Merged, params
    <3> QED  BY <1>1, <3>1, <3>2 DEF StdoutSaved
  <2>2. CASE StartCommand
    BY <1>1, <2>1, <2>2 DEF JobInv, SavedOK, StartCommand, InSession, params
  <2>3. CASE CommandReturns
    BY <1>1, <2>1, <2>3 DEF JobInv, SavedOK, CommandReturns, InSession, params
  <2>4. CASE Wait
    <3>1. Left("stdin") + Left("stdout") + Left("stderr") = 0
      BY <2>4 DEF Wait, JobInv, CounterOK, InSession
    <3>2. \A s \in Streams : Left(s) \in {0, 1}
      BY DEF Left
    <3>3. \A s \in Streams : Left(s) = 0
      BY <3>1, <3>2 DEF Streams
    <3>4. \A s \in Expected : copier[s] \in {"done", "cut"}
      BY <3>3 DEF Left, Expected, InputStream, Streams, JobInv, TypesOK
    <3>5. copier["stdout"] \in {"done", "cut"} /\ \A s \in Streams : copier[s] # "copying"
      BY <3>4 DEF JobInv, CopiersOK, Expected
    <3> QED  BY <1>1, <2>1, <2>4, <3>5 DEF JobInv, SavedOK, Wait, Return, InSession, params
  <2> QED  BY <2>2, <2>3, <2>4
<1> QED  BY <1>2, <1>3, <1>4, <1>5 DEF JobInv

\* A copier ends: it is one less to wait for, and of stdout everything was saved unless
\* the connection is broken, the session is gone or a write to its file failed.
LEMMA CopierStep ==
  ASSUME JobInv, NEW s \in Streams, Copier(s)
  PROVE  JobInv'
<1>1. /\ UNCHANGED <<params, pc, open, link, remote, result>>
      /\ copier[s] = "copying" /\ wg' = wg - 1
      /\ \/ /\ copier' = [copier EXCEPT ![s] = "done"]
            /\ saved' = IF s = "stdin" THEN saved
                        ELSE [saved EXCEPT ![Sink(s)] = @ \cup Carries(s)]
         \/ /\ copier' = [copier EXCEPT ![s] = "cut"] /\ saved' = saved
            /\ s # "stdin"
            /\ (Ended /\ ~Closed) \/ Sink(s) \in {"outFile", "errFile"}
  BY DEF Copier, CopierEnds, OutputEnds, OutputBreaks, InputEnds
<1>2. PICK e \in {"done", "cut"} : copier' = [copier EXCEPT ![s] = e]
  BY <1>1
<1>3. \A r \in Streams : copier'[r] = IF r = s THEN e ELSE copier[r]
  BY <1>2 DEF JobInv, TypesOK
<1>4. s \in Expected /\ Expected' = Expected
  BY <1>1 DEF JobInv, CopiersOK, Expected, InputStream, params
<1>5. \A r : Carries(r) \subseteq Streams \cup {r} /\ Sink(r) \in Sinks
  BY DEF Carries, Merged, Sink, Sinks, Streams
<1>6. TypesOK'
  <2>1. copier' \in [Streams -> {"none", "copying", "done", "cut"}]
    BY <1>2 DEF JobInv, TypesOK
  <2>2. saved \in [Sinks -> SUBSET Streams]
    BY DEF JobInv, TypesOK
  <2>3. saved' \in [Sinks -> SUBSET Streams]
    BY <1>1, <1>5, <2>2
  <2> QED  BY <1>1, <2>1, <2>3 DEF JobInv, TypesOK, params
<1>7. OpenOK'
  BY <1>1 DEF JobInv, OpenOK, InSession
<1>8. CopiersOK'
  <2>1. \A r \in Streams : copier'[r] = "none" <=> copier[r] = "none"
    BY <1>1, <1>3
  <2>2. Expected \subseteq Streams /\ "stderr" \in Streams
    BY DEF Expected, InputStream, Streams
  <2> QED  BY <1>1, <1>4, <2>1, <2>2 DEF JobInv, CopiersOK
<1>9. CounterOK'
  <2>1. \A r \in Streams : Left(r)' = IF r = s THEN 0 ELSE Left(r)
    BY <1>3, <1>4 DEF Left
  <2>2. Left(s) = 1 /\ \A r \in Streams : Left(r) \in {0, 1}
    BY <1>1, <1>4 DEF Left
  <2>3. Left("stdin")' + Left("stdout")' + Left("stderr")' = Left("stdin") + Left("stdout") + Left("stderr") - 1
    BY <2>1, <2>2 DEF Streams
  <2>4. pc \in InSession \cup {"returned"} /\ wg = Left("stdin") + Left("stdout") + Left("stderr")
    BY <1>1 DEF JobInv, TypesOK, CounterOK, InSession
  <2>5. wg' = Left("stdin")' + Left("stdout")' + Left("stderr")'
    BY <1>1, <2>2, <2>3, <2>4 DEF Streams
  <2> QED  BY <1>1, <2>4, <2>5 DEF CounterOK, InSession
<1>10. SavedOK'
  <2>1. /\ Sink("stdout")' = Sink("stdout") /\ Carries("stdout")' = Carries("stdout") /\ opts' = opts
        /\ saved \in [Sinks -> SUBSET Streams]
    BY <1>1 DEF Sink, Carries, Merged, params, JobInv, TypesOK
  <2>2. \A x \in Sinks : saved[x] \subseteq saved'[x]
    BY <1>1, <2>1
  <2>3. ASSUME pc \in InSession, StdoutSaved PROVE StdoutSaved'
    <3>1. CASE s # "stdout"
      BY <1>1, <1>3, <1>5, <2>1, <2>2, <2>3, <3>1 DEF StdoutSaved, Streams
    <3>2. CASE s = "stdout" /\ e = "done"
      <4>1. copier'["stdout"] = "done"
        BY <1>3, <3>2 DEF Streams
      <4>2. saved' = [saved EXCEPT ![Sink(s)] = @ \cup Carries(s)]
        BY <1>1, <3>2, <4>1 DEF JobInv, TypesOK
      <4>3. Carries("stdout") \subseteq saved'[Sink("stdout")]
        BY <1>5, <2>1, <3>2, <4>2
      <4> QED  BY <2>1, <4>3 DEF StdoutSaved
    <3>3. CASE s = "stdout" /\ e = "cut"
      <4>1. copier'["stdout"] = "cut"
        BY <1>3, <3>3 DEF Streams
      <4>2. (Ended /\ ~Closed) \/ Sink("stdout") \in {"outFile", "errFile"}
        BY <1>1, <3>3, <4>1 DEF JobInv, TypesOK
      <4>3. "session" \in open
        BY <2>3 DEF JobInv, OpenOK
      <4>4. Sink("stdout") \in {"outFile", "errFile"} => opts.outDir
        BY DEF Sink
      <4> QED  BY <1>1, <2>1, <4>1, <4>2, <4>3, <4>4 DEF StdoutSaved, Ended, Closed
    <3> QED  BY <3>1, <3>2, <3>3
  <2>4. ~(pc = "returned" /\ result = "ok" /\ ~dryRun)
    BY <1>1 DEF JobInv, SavedOK
  <2> QED  BY <1>1, <2>3, <2>4 DEF JobInv, SavedOK, params, InSession
<1> QED  BY <1>6, <1>7, <1>8, <1>9, <1>10 DEF JobInv

\* The remote side: the channel is closed only while the connection is up.
LEMMA RemoteStep ==
  ASSUME JobInv, RemoteExits \/ RemoteCloses \/ LinkBreaks \/ UNCHANGED vars
  PROVE  JobInv'
<1>1. /\ UNCHANGED <<params, pc, open, copier, wg, saved, result>>
      /\ link' = link \/ link' = "down"
      /\ \/ remote' \in {remote, "exited", "lost"}
         \/ remote' = "closed" /\ link = "up" /\ remote = "exited"
  BY DEF RemoteExits, RemoteCloses, LinkBreaks, vars
<1>2. TypesOK' /\ OpenOK'
  BY <1>1 DEF JobInv, TypesOK, OpenOK, params, InSession
<1>3. CopiersOK' /\ CounterOK'
  BY <1>1 DEF JobInv, CopiersOK, CounterOK, Left, Expected, InputStream, InSession, params
<1>4. SavedOK'
  <2>1. Sink("stdout")' = Sink("stdout") /\ Carries("stdout")' = Carries("stdout") /\ opts' = opts
    BY <1>1 DEF Sink, Carries, Merged, params
  <2>2. StdoutSaved => StdoutSaved'
    BY <1>1, <2>1 DEF StdoutSaved
  <2> QED  BY <1>1, <2>2 DEF JobInv, SavedOK, InSession, params
<1> QED  BY <1>2, <1>3, <1>4 DEF JobInv

-----------------------------------------------------------------------------
(***************************************************************************)
(* The theorems                                                            *)
(***************************************************************************)

\* Every step preserves the invariant.
LEMMA NextInv ==
  JobInv /\ [Next]_vars => JobInv'
<1> QED  BY ConnectStep, SessionStep, StartStep, RunStep, CopierStep, RemoteStep DEF Next, Worker, Over

\* The invariant always holds.
LEMMA AlwaysJobInv ==
  Spec => []JobInv
<1> QED  BY InitInv, NextInv, PTL DEF Spec

\* The size of a set of streams.
LEMMA StreamsSize ==
  ASSUME NEW S \in SUBSET Streams
  PROVE  Cardinality(S) = (IF "stdin" \in S THEN 1 ELSE 0)
                        + (IF "stdout" \in S THEN 1 ELSE 0)
                        + (IF "stderr" \in S THEN 1 ELSE 0)
<1> DEFINE A == S \cap {"stdin"}
           B == S \cap {"stdin", "stdout"}
<1>1. IsFiniteSet({}) /\ Cardinality({}) = 0
  BY FS_EmptySet
<1>2. IsFiniteSet(A) /\ Cardinality(A) = IF "stdin" \in S THEN 1 ELSE 0
  <2>1. CASE "stdin" \in S
    <3>1. A = {} \cup {"stdin"}
      BY <2>1
    <3> QED  BY <1>1, <2>1, <3>1, FS_AddElement
  <2>2. CASE "stdin" \notin S
    <3>1. A = {}
      BY <2>2
    <3> QED  BY <1>1, <2>2, <3>1
  <2> QED  BY <2>1, <2>2
<1>3. IsFiniteSet(B) /\ Cardinality(B) = Cardinality(A) + IF "stdout" \in S THEN 1 ELSE 0
  <2>1. CASE "stdout" \in S
    <3>1. B = A \cup {"stdout"} /\ "stdout" \notin A
      BY <2>1
    <3> HIDE DEF A, B
    <3> QED  BY <1>2, <2>1, <3>1, FS_AddElement
  <2>2. CASE "stdout" \notin S
    <3>1. B = A
      BY <2>2
    <3> HIDE DEF A, B
    <3> QED  BY <1>2, <2>2, <3>1
  <2> QED  BY <2>1, <2>2
<1>4. Cardinality(S) = Cardinality(B) + IF "stderr" \in S THEN 1 ELSE 0
  <2>1. CASE "stderr" \in S
    <3>1. S = B \cup {"stderr"} /\ "stderr" \notin B
      BY <2>1 DEF Streams
    <3> HIDE DEF A, B
    <3> QED  BY <1>3, <2>1, <3>1, FS_AddElement
  <2>2. CASE "stderr" \notin S
    <3>1. S = B
      BY <2>2 DEF Streams
    <3> HIDE DEF A, B
    <3> QED  BY <1>2, <1>3, <2>2, <3>1
  <2> QED  BY <2>1, <2>2
<1> HIDE DEF A, B
<1> QED  BY <1>2, <1>3, <1>4

\* Every variable has its type, and once all copiers run the counter of the WaitGroup is
\* the number of those that have not ended, so that it never becomes negative
\* (ssh.go:224-376).
THEOREM JobTypeCorrect == Spec => []TypeOK
<1>1. JobInv => TypeOK
  <2> SUFFICES ASSUME JobInv PROVE TypeOK
    OBVIOUS
  <2>1. \A s \in Streams : Left(s) \in {0, 1}
    BY DEF Left
  <2>2. wg \in 0 .. 3
    <3>1. wg = 0 \/ wg = Left("stdin") + Left("stdout") + Left("stderr")
      BY DEF JobInv, TypesOK, CounterOK, InSession
    <3> QED  BY <2>1, <3>1 DEF Streams
  <2>3. ASSUME pc \in {"run", "running", "wait"}
        PROVE  wg = Cardinality({s \in Streams : copier[s] = "copying"})
    <3> DEFINE S == {s \in Streams : copier[s] = "copying"}
    <3>1. \A s \in Streams : Left(s) = IF s \in S THEN 1 ELSE 0
      BY <2>3 DEF Left, JobInv, CopiersOK, TypesOK
    <3>2. wg = Left("stdin") + Left("stdout") + Left("stderr")
      BY <2>3 DEF JobInv, CounterOK, InSession
    <3>3. S \in SUBSET Streams
      OBVIOUS
    <3> HIDE DEF S
    <3>4. Cardinality(S) = (IF "stdin" \in S THEN 1 ELSE 0) + (IF "stdout" \in S THEN 1 ELSE 0)
                           + (IF "stderr" \in S THEN 1 ELSE 0)
      BY <3>3, StreamsSize
    <3>5. wg = Cardinality(S)
      BY <3>1, <3>2, <3>4 DEF Streams
    <3> QED  BY <3>5 DEF S
  <2> QED  BY <2>2, <2>3 DEF JobInv, TypesOK, TypeOK
<1> QED  BY <1>1, AlwaysJobInv, PTL

\* A job that reports success has no copier running, and unless the connection broke
\* before the channel was closed, or a write to the file failed, all its standard output
\* is where the options say, in whatever order the status, the ends of the streams and
\* of the channel, the errors of the copiers and the deadline come (ssh.go:371-376).
THEOREM SuccessIsComplete == Spec => []OutputComplete
<1>1. JobInv => OutputComplete
  BY DEF JobInv, SavedOK, StdoutSaved, OutputComplete
<1> QED  BY <1>1, AlwaysJobInv, PTL

\* Every way out of doSSH closes the session, the instance's connection and the input,
\* and every connection of a job that did not reach the instance (ssh.go:169-216).
THEOREM EveryReturnReleases == Spec => ReturnReleases
<1> DEFINE Step == pc' = "returned" /\ pc # "returned" =>
                     /\ open' \cap {"input", "tunnel", "server", "session"} = {}
                     /\ pc \in {"start", "bastion", "tunnel"} => open' = {}
<1>1. JobInv /\ [Next]_vars => [Step]_vars
  <2> SUFFICES ASSUME JobInv, Next, pc' = "returned", pc # "returned"
               PROVE  /\ open' \cap {"input", "tunnel", "server", "session"} = {}
                      /\ pc \in {"start", "bastion", "tunnel"} => open' = {}
    BY DEF vars
  <2>1. Worker
    BY DEF Next, Copier, CopierEnds, OutputEnds, OutputBreaks, InputEnds, RemoteExits, RemoteCloses,
           LinkBreaks, Over
  <2>2. PICK closes : open' = open \ (closes \cup Deferred)
                      /\ (pc = "bastion" => closes = {"bastion"}) /\ (pc = "tunnel" => closes = {"tunnel", "bastion"})
    BY <2>1 DEF Worker, DryRun, Dial, Tunnel, ShakeHands, OpenSession,
                StartInline, StartOut, StartErr, StartCommand, CommandReturns, Wait, Return
  <2>3. CASE pc \in {"start", "bastion", "tunnel"}
    BY <2>2, <2>3 DEF JobInv, OpenOK, Deferred
  <2>4. CASE pc \notin {"start", "bastion", "tunnel"}
    <3>1. "server" \in open
      BY <2>4 DEF JobInv, TypesOK, OpenOK, InSession
    <3> QED  BY <2>2, <2>4, <3>1 DEF Deferred
  <2> QED  BY <2>3, <2>4
<1> QED  BY <1>1, AlwaysJobInv, PTL DEF Spec, ReturnReleases
=============================================================================
