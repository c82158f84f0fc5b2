------------------------- MODULE CacheSessionProofs -------------------------
(***************************************************************************)
(* Theorems about CacheSession, for every set of callers, keys, workers    *)
(* and values.                                                             *)
(***************************************************************************)
EXTENDS CacheSession, TLAPS

LEMMA TypeInit == Init => TypeOK
<1> SUFFICES ASSUME Init PROVE TypeOK
  OBVIOUS
<1> USE CacheAssumption DEF Init, Results, Busy
<1>1. cast \in [key : Keys \cup {Nil}, value : Results \cup {Nil}, left : SUBSET Gets]
  BY DEF NoCast
<1>2. tries \in [Workers -> 0 .. Retries]
  OBVIOUS
<1>. QED
  BY <1>1, <1>2 DEF TypeOK

LEMMA TypeStep == TypeOK /\ [Next]_vars => TypeOK'
<1> SUFFICES ASSUME TypeOK, [Next]_vars PROVE TypeOK'
  OBVIOUS
<1> USE CacheAssumption DEF TypeOK, Busy, Calls, Readers, Results
<1> USE DEF callerVars, tableVars, workerVars, notes, closeVars
<1>1. ASSUME NEW c \in Calls, Call(c) PROVE TypeOK'
  BY <1>1 DEF Call
<1>2. ASSUME NEW c \in Calls, Answer(c) PROVE TypeOK'
  BY <1>2 DEF Answer
<1>3. CASE Close
  BY <1>3 DEF Close
<1>4. ASSUME NEW c \in Readers, ReadHit(c) PROVE TypeOK'
  BY <1>4 DEF ReadHit, CanRead
<1>5. ASSUME NEW c \in Readers, ReadJoin(c) PROVE TypeOK'
  BY <1>5 DEF ReadJoin, MissPhase
<1>6. ASSUME NEW c \in Readers, ReadMiss(c) PROVE TypeOK'
  BY <1>6 DEF ReadMiss, MissPhase, Receiver
<1>7. ASSUME NEW c \in Readers, ReadZero(c) PROVE TypeOK'
  BY <1>7 DEF ReadZero
<1>8. ASSUME NEW c \in Peeks, PeekRead(c) PROVE TypeOK'
  BY <1>8 DEF PeekRead
<1>9. ASSUME NEW w \in Workers, Write(w) PROVE TypeOK'
  BY <1>9 DEF Write, Publish, Stored, NoCast
<1>10. ASSUME NEW w \in Workers, Drain(w) PROVE TypeOK'
  BY <1>10 DEF Drain
<1>11. ASSUME NEW c \in Gets, Broadcast(c) PROVE TypeOK'
  BY <1>11 DEF Broadcast, NoCast
<1>12. CASE SeeClosed
  BY <1>12 DEF SeeClosed
<1>13. CASE Finish
  BY <1>13 DEF Finish
<1>14. CASE WaitReturns
  BY <1>14 DEF WaitReturns
<1>15. ASSUME NEW w \in Workers, StartWorker(w) PROVE TypeOK'
  BY <1>15 DEF StartWorker
<1>16. ASSUME NEW w \in Workers, NEW c \in Readers, TakeJob(w, c) PROVE TypeOK'
  BY <1>16 DEF TakeJob
<1>17. ASSUME NEW w \in Workers, FetchSucceeds(w) PROVE TypeOK'
  BY <1>17 DEF FetchSucceeds, Succeeds
<1>18. ASSUME NEW w \in Workers, FetchFails(w) PROVE TypeOK'
  BY <1>18 DEF FetchFails, Fails
<1>19. ASSUME NEW w \in Workers, ExitWorker(w) PROVE TypeOK'
  BY <1>19 DEF ExitWorker
<1>20. ASSUME NEW c \in Readers, SendOnClosed(c) PROVE TypeOK'
  BY <1>20 DEF SendOnClosed
<1>21. ASSUME NEW w \in Workers, StartTooLate(w) PROVE TypeOK'
  BY <1>21 DEF StartTooLate
<1>22. CASE UNCHANGED vars
  BY <1>22 DEF vars
<1>. QED
  BY <1>1, <1>2, <1>3, <1>4, <1>5, <1>6, <1>7, <1>8, <1>9, <1>10, <1>11, <1>12,
     <1>13, <1>14, <1>15, <1>16, <1>17, <1>18, <1>19, <1>20, <1>21,
     <1>22
     DEF Next, ServerStep, ServerReads, WorkerStep, Rest, Dead

-----------------------------------------------------------------------------
(***************************************************************************)
(* The inductive invariant                                                 *)
(***************************************************************************)

\* Only Gets of a key are listed under it, and a waiting Get is listed.
Lists ==
  /\ \A k \in Keys : \A g \in waitingClients[k] : g # Nil => KeyOf[g] = k
  /\ \A g \in Gets : phase[g] = "wait" => g \in waitingClients[KeyOf[g]]

\* Nobody listed under the key has been answered yet.
Unanswered(k) ==
  /\ waitingClients[k] # {}
  /\ \A g \in waitingClients[k] : g # Nil => phase[g] = "wait"

\* A key whose request is with the workers is listed and nobody is answered.
Fresh == \A k \in Keys : Underway(k) => Unanswered(k)

\* A broadcast serves listed receivers of a key that no worker has, with the
\* result that was stored if it was one to store.
Casting ==
  /\ server # "broadcast" => cast.left = {}
  /\ server = "broadcast" =>
       /\ cast.key \in Keys /\ cast.value \in Results
       /\ cast.left \subseteq waitingClients[cast.key]
       /\ ~Underway(cast.key)
       /\ CacheOnError => db[cast.key] = cast.value

FlightInv == SingleFlight /\ Lists /\ Fresh /\ Casting /\ BroadcastReachesWaiters

LEMMA FlightInit == Init => FlightInv
BY CacheAssumption
   DEF Init, FlightInv, SingleFlight, Lists, Fresh, Casting, BroadcastReachesWaiters,
       Underway, Busy, NoCast, Calls, Readers

LEMMA FlightStep == TypeOK /\ FlightInv /\ [Next]_vars => FlightInv'
<1> SUFFICES ASSUME TypeOK, FlightInv, [Next]_vars PROVE FlightInv'
  OBVIOUS
<1> USE CacheAssumption DEF TypeOK, Calls, Readers, Results
<1> USE DEF callerVars, tableVars, workerVars, notes, closeVars
<1> USE DEF FlightInv, SingleFlight, Lists, Fresh, Unanswered, Casting,
            BroadcastReachesWaiters, Underway, Busy
<1>1. ASSUME NEW c \in Calls, Call(c) PROVE FlightInv'
  BY <1>1 DEF Call
<1>2. ASSUME NEW c \in Calls, Answer(c) PROVE FlightInv'
  BY <1>2 DEF Answer
<1>3. CASE Close
  BY <1>3 DEF Close
<1>4. ASSUME NEW c \in Readers, ReadHit(c) PROVE FlightInv'
  BY <1>4 DEF ReadHit, CanRead
<1>5. ASSUME NEW c \in Readers, ReadJoin(c) PROVE FlightInv'
  BY <1>5 DEF ReadJoin, CanRead, MissPhase
<1>6. ASSUME NEW c \in Readers, ReadMiss(c) PROVE FlightInv'
  <2>1. ~Underway(KeyOf[c]) /\ db[KeyOf[c]] = Nil
    BY <1>6 DEF ReadMiss
  <2>2. server' = server /\ server # "broadcast" /\ cast' = cast
    BY <1>6 DEF ReadMiss, CanRead
  <2>3. SingleFlight'
    BY <1>6, <2>1 DEF ReadMiss
  <2>4. Lists'
    BY <1>6 DEF ReadMiss, CanRead, MissPhase, Receiver
  <2>5. \A k \in Keys \ {KeyOf[c]} : Underway(k)' => Unanswered(k)'
    BY <1>6 DEF ReadMiss, CanRead, MissPhase, Receiver
  <2>6. Unanswered(KeyOf[c])'
    <3>1. waitingClients'[KeyOf[c]] = {Receiver(c)}
      BY <1>6 DEF ReadMiss
    <3>2. phase'[c] = MissPhase(c)
      BY <1>6 DEF ReadMiss
    <3>. QED
      BY <3>1, <3>2 DEF MissPhase, Receiver
  <2>. QED
    BY <2>2, <2>3, <2>4, <2>5, <2>6
<1>7. ASSUME NEW c \in Readers, ReadZero(c) PROVE FlightInv'
  BY <1>7 DEF ReadZero
<1>8. ASSUME NEW c \in Peeks, PeekRead(c) PROVE FlightInv'
  BY <1>8 DEF PeekRead
<1>9. ASSUME NEW w \in Workers, Write(w) PROVE FlightInv'
  BY <1>9 DEF Write, Publish, Stored, NoCast
<1>10. ASSUME NEW w \in Workers, Drain(w) PROVE FlightInv'
  BY <1>10 DEF Drain
<1>11. ASSUME NEW c \in Gets, Broadcast(c) PROVE FlightInv'
  BY <1>11 DEF Broadcast, NoCast
<1>12. CASE SeeClosed
  BY <1>12 DEF SeeClosed
<1>13. CASE Finish
  BY <1>13 DEF Finish
<1>14. CASE WaitReturns
  BY <1>14 DEF WaitReturns
<1>15. ASSUME NEW w \in Workers, StartWorker(w) PROVE FlightInv'
  BY <1>15 DEF StartWorker
<1>16. ASSUME NEW w \in Workers, NEW c \in Readers, TakeJob(w, c) PROVE FlightInv'
  BY <1>16 DEF TakeJob
<1>17. ASSUME NEW w \in Workers, FetchSucceeds(w) PROVE FlightInv'
  BY <1>17 DEF FetchSucceeds
<1>18. ASSUME NEW w \in Workers, FetchFails(w) PROVE FlightInv'
  BY <1>18 DEF FetchFails
<1>19. ASSUME NEW w \in Workers, ExitWorker(w) PROVE FlightInv'
  BY <1>19 DEF ExitWorker
<1>20. ASSUME NEW c \in Readers, SendOnClosed(c) PROVE FlightInv'
  BY <1>20 DEF SendOnClosed
<1>21. ASSUME NEW w \in Workers, StartTooLate(w) PROVE FlightInv'
  BY <1>21 DEF StartTooLate
<1>22. CASE UNCHANGED vars
  BY <1>22 DEF vars
<1>. QED
  BY <1>1, <1>2, <1>3, <1>4, <1>5, <1>6, <1>7, <1>8, <1>9, <1>10, <1>11, <1>12,
     <1>13, <1>14, <1>15, <1>16, <1>17, <1>18, <1>19, <1>20, <1>21,
     <1>22
     DEF Next, ServerStep, ServerReads, WorkerStep, Rest, Dead

-----------------------------------------------------------------------------
(***************************************************************************)
(* Counting the calls of the Updater                                       *)
(***************************************************************************)

\* The Updater is first called for a key by the worker that has its only request,
\* and that worker's tries are all the calls there have been so far.
Counted ==
  /\ \A k \in Keys : waitingClients[k] = {} => called[k] = 0
  /\ \A c \in jobQueue : called[KeyOf[c]] = 0
  /\ \A w \in Workers :
       IF wphase[w] = "fetch" THEN called[KeyOf[wjob[w]]] = tries[w] ELSE tries[w] = 0
  /\ UpdaterCalls

LEMMA CountedInit == Init => Counted
BY CacheAssumption DEF Init, Counted, UpdaterCalls

LEMMA CountedStep == TypeOK /\ FlightInv /\ Counted /\ [Next]_vars => Counted'
<1> SUFFICES ASSUME TypeOK, FlightInv, Counted, [Next]_vars PROVE Counted'
  OBVIOUS
<1> USE CacheAssumption DEF TypeOK, Calls, Readers, Counted, UpdaterCalls
<1> USE DEF callerVars, tableVars, workerVars, notes, closeVars
<1>1. CASE UNCHANGED <<waitingClients, jobQueue, wphase, wjob, tries, called>>
  BY <1>1
<1>2. ASSUME NEW c \in Readers, ReadJoin(c) PROVE Counted'
  BY <1>2 DEF ReadJoin
<1>3. ASSUME NEW c \in Readers, ReadMiss(c) PROVE Counted'
  BY <1>3 DEF ReadMiss, Receiver
<1>4. ASSUME NEW w \in Workers, Write(w) PROVE Counted'
  BY <1>4 DEF Write, Publish
<1>5. ASSUME NEW w \in Workers, Drain(w) PROVE Counted'
  BY <1>5 DEF Drain
<1>6. ASSUME NEW w \in Workers, StartWorker(w) PROVE Counted'
  BY <1>6 DEF StartWorker
<1>7. ASSUME NEW w \in Workers, NEW c \in Readers, TakeJob(w, c) PROVE Counted'
  BY <1>7 DEF TakeJob
<1>8. ASSUME NEW w \in Workers, wphase[w] = "fetch"
      PROVE  /\ waitingClients[KeyOf[wjob[w]]] # {}
             /\ \A c \in jobQueue : KeyOf[c] # KeyOf[wjob[w]]
             /\ \A x \in Workers :
                  wphase[x] = "fetch" /\ KeyOf[wjob[x]] = KeyOf[wjob[w]] => x = w
  BY <1>8 DEF FlightInv, SingleFlight, Fresh, Unanswered, Underway, Busy
<1>9. ASSUME NEW w \in Workers, FetchSucceeds(w) PROVE Counted'
  BY <1>8, <1>9 DEF FetchSucceeds, Succeeds, Busy
<1>10. ASSUME NEW w \in Workers, FetchFails(w) PROVE Counted'
  BY <1>8, <1>10 DEF FetchFails, Fails, Busy
<1>11. ASSUME NEW w \in Workers, ExitWorker(w) PROVE Counted'
  BY <1>11 DEF ExitWorker
<1>. QED
  BY <1>1, <1>2, <1>3, <1>4, <1>5, <1>6, <1>7, <1>9, <1>10, <1>11
     DEF Next, ServerStep, ServerReads, WorkerStep, Rest, Dead, vars, Call, Answer, Close,
         ReadHit, ReadZero, PeekRead, Broadcast, SeeClosed, Finish, WaitReturns, SendOnClosed,
         StartTooLate

-----------------------------------------------------------------------------
(***************************************************************************)
(* Who is served                                                           *)
(***************************************************************************)

\* With CacheOnError a listed key is cached or on its way; without it no error is
\* cached; the answer offered to a Get is what is cached; and what the workers have
\* was asked for.
Served ==
  /\ NoOrphanWaiter
  /\ CacheOnError /\ server \in {"select", "broadcast"} =>
       \A k \in Keys : waitingClients[k] # {} /\ db[k] = Nil => Underway(k)
  /\ ~CacheOnError => \A k \in Keys : db[k] # Err
  /\ \A g \in Gets : phase[g] = "answer" => reply[g] # Nil /\ reply[g] = db[KeyOf[g]]
  /\ \A c \in jobQueue : phase[c] # "idle"
  /\ \A w \in Workers : Busy(w) => phase[wjob[w]] # "idle"

LEMMA ServedInit == Init => Served
BY CacheAssumption DEF Init, Served, NoOrphanWaiter, Busy, Calls, Readers, Results

LEMMA ServedStep == TypeOK /\ FlightInv /\ Served /\ [Next]_vars => Served'
<1> SUFFICES ASSUME TypeOK, FlightInv, Served, [Next]_vars PROVE Served'
  OBVIOUS
<1> USE CacheAssumption DEF TypeOK, Calls, Readers, Results, Served, NoOrphanWaiter,
        Underway, Busy
<1> USE DEF callerVars, tableVars, workerVars, notes, closeVars
<1>1. ASSUME NEW c \in Calls, Call(c) PROVE Served'
  BY <1>1 DEF Call
<1>2. ASSUME NEW c \in Calls, Answer(c) PROVE Served'
  BY <1>2 DEF Answer
<1>3. ASSUME NEW c \in Readers, ReadHit(c) PROVE Served'
  BY <1>3 DEF ReadHit, CanRead
<1>4. ASSUME NEW c \in Readers, ReadJoin(c) PROVE Served'
  BY <1>4 DEF ReadJoin, CanRead, MissPhase
<1>5. ASSUME NEW c \in Readers, ReadMiss(c) PROVE Served'
  BY <1>5 DEF ReadMiss, CanRead, MissPhase, Receiver
<1>6. ASSUME NEW c \in Readers, ReadZero(c) PROVE Served'
  BY <1>6 DEF ReadZero
<1>7. ASSUME NEW c \in Peeks, PeekRead(c) PROVE Served'
  BY <1>7 DEF PeekRead
<1>8. ASSUME NEW w \in Workers, Write(w) PROVE Served'
  <2> USE <1>8 DEF Write, Publish, Stored
  <2>1. wjob[w] \in Readers /\ wvalue[w] \in Results /\ db[KeyOf[wjob[w]]] = Nil
    BY DEF FlightInv, SingleFlight
  <2>2. NoOrphanWaiter'
    BY <2>1 DEF NoCast, FlightInv, Lists, Casting
  <2>3. CacheOnError /\ server' \in {"select", "broadcast"} =>
          \A k \in Keys : waitingClients'[k] # {} /\ db'[k] = Nil => Underway(k)'
    BY <2>1
  <2>4. ~CacheOnError => \A k \in Keys : db'[k] # Err
    BY <2>1
  <2>5. \A g \in Gets : phase'[g] = "answer" => reply'[g] # Nil /\ reply'[g] = db'[KeyOf[g]]
    BY <2>1
  <2>6. (\A c \in jobQueue : phase[c] # "idle")' /\ (\A x \in Workers : Busy(x) => phase[wjob[x]] # "idle")'
    OBVIOUS
  <2>. QED
    BY <2>2, <2>3, <2>4, <2>5, <2>6
<1>9. ASSUME NEW c \in Gets, Broadcast(c) PROVE Served'
  BY <1>9 DEF Broadcast, NoCast
<1>10. ASSUME NEW w \in Workers, NEW c \in Readers, TakeJob(w, c) PROVE Served'
  BY <1>10 DEF TakeJob
<1>11. ASSUME NEW w \in Workers, Drain(w) \/ StartWorker(w) \/ ExitWorker(w) PROVE Served'
  BY <1>11 DEF Drain, StartWorker, ExitWorker
<1>12. ASSUME NEW w \in Workers, FetchSucceeds(w) \/ FetchFails(w) PROVE Served'
  BY <1>12 DEF FetchSucceeds, FetchFails
<1>13. CASE SeeClosed \/ Finish
  BY <1>13 DEF SeeClosed, Finish
<1>14. CASE UNCHANGED <<callerVars, tableVars, jobQueue, server, workerVars>>
  BY <1>14
<1>. QED
  BY <1>1, <1>2, <1>3, <1>4, <1>5, <1>6, <1>7, <1>8, <1>9, <1>10, <1>11, <1>12, <1>13, <1>14
     DEF Next, ServerStep, ServerReads, WorkerStep, Rest, Dead, vars, Close, WaitReturns,
         SendOnClosed, StartTooLate

-----------------------------------------------------------------------------
(***************************************************************************)
(* What is given out                                                       *)
(***************************************************************************)

\* Nobody has asked for the key yet, its request is queued, or the Updater is at work.
Open(k) ==
  \/ waitingClients[k] = {}
  \/ \E c \in jobQueue : KeyOf[c] = k
  \/ \E w \in Workers : wphase[w] = "fetch" /\ KeyOf[wjob[w]] = k

\* Until then no call has succeeded and nothing has been given out.
KeptAt(k) ==
  /\ IF found[k] # Nil THEN Given(k) \subseteq {found[k]}
     ELSE Given(k) # {} => Given(k) = {Err} /\ called[k] = Retries + 1
  /\ Open(k) => found[k] = Nil /\ Given(k) = {}

Kept == \A k \in Keys : KeptAt(k)

LEMMA KeptInit == Init => Kept
<1> SUFFICES ASSUME Init, NEW k \in Keys PROVE KeptAt(k)
  BY DEF Kept
<1>1. Given(k) = {}
  BY CacheAssumption DEF Init, Given, Calls, Readers
<1>. QED
  BY <1>1 DEF Init, KeptAt

\* Only the calls of the Updater add to what is given out of a key.
LEMMA NothingNew ==
  ASSUME TypeOK, FlightInv, Served, NEW k \in Keys, [Next]_vars,
         ~ \E w \in Workers : FetchSucceeds(w) \/ FetchFails(w)
  PROVE  /\ Given(k)' \subseteq Given(k)
         /\ Open(k)' => Open(k)
         /\ UNCHANGED notes
<1> USE CacheAssumption DEF TypeOK, Calls, Readers, Results
<1> USE DEF callerVars, tableVars, workerVars, notes, closeVars
<1> USE DEF Given, Open
<1> DEFINE Goal == Given(k)' \subseteq Given(k) /\ (Open(k)' => Open(k)) /\ UNCHANGED notes
<1>1. ASSUME NEW c \in Calls, Call(c) \/ Answer(c) PROVE Goal
  BY <1>1 DEF Call, Answer
<1>2. ASSUME NEW c \in Readers, ReadHit(c) PROVE Goal
  BY <1>2 DEF ReadHit, CanRead
<1>3. ASSUME NEW c \in Readers, ReadJoin(c) PROVE Goal
  BY <1>3 DEF ReadJoin, CanRead, MissPhase
<1>4. ASSUME NEW c \in Readers, ReadMiss(c) PROVE Goal
  BY <1>4 DEF ReadMiss, CanRead, MissPhase, Receiver
<1>5. ASSUME NEW c \in Readers, ReadZero(c) PROVE Goal
  BY <1>5 DEF ReadZero, IsZero
<1>6. ASSUME NEW c \in Peeks, PeekRead(c) PROVE Goal
  BY <1>6 DEF PeekRead
<1>7. ASSUME NEW w \in Workers, Write(w) PROVE Goal
  BY <1>7 DEF Write, Publish, Stored, NoCast
<1>8. ASSUME NEW w \in Workers, Drain(w) PROVE Goal
  BY <1>8 DEF Drain
<1>9. ASSUME NEW c \in Gets, Broadcast(c) PROVE Goal
  BY <1>9 DEF Broadcast, NoCast, FlightInv, BroadcastReachesWaiters
<1>10. CASE SeeClosed \/ Finish
  BY <1>10 DEF SeeClosed, Finish
<1>11. ASSUME NEW w \in Workers, StartWorker(w) \/ ExitWorker(w) PROVE Goal
  BY <1>11 DEF StartWorker, ExitWorker
<1>12. ASSUME NEW w \in Workers, NEW c \in Readers, TakeJob(w, c) PROVE Goal
  BY <1>12 DEF TakeJob
<1>13. CASE UNCHANGED <<callerVars, tableVars, jobQueue, server, workerVars>>
  BY <1>13
<1>. QED
  BY <1>1, <1>2, <1>3, <1>4, <1>5, <1>6, <1>7, <1>8, <1>9, <1>10, <1>11, <1>12, <1>13
     DEF Next, ServerStep, ServerReads, WorkerStep, Rest, Dead, vars, Close, WaitReturns,
         SendOnClosed, StartTooLate

LEMMA KeptStep ==
  TypeOK /\ FlightInv /\ Counted /\ Served /\ Kept /\ [Next]_vars => Kept'
<1> SUFFICES ASSUME TypeOK, FlightInv, Counted, Served, Kept, [Next]_vars PROVE Kept'
  OBVIOUS
<1>1. CASE ~ \E w \in Workers : FetchSucceeds(w) \/ FetchFails(w)
  <2>1. \A k \in Keys : /\ Given(k)' \subseteq Given(k)
                        /\ Open(k)' => Open(k)
                        /\ found' = found /\ called' = called
    BY <1>1, NothingNew DEF notes
  <2>. QED
    BY <2>1 DEF Kept, KeptAt
<1>2. ASSUME NEW w \in Workers, FetchSucceeds(w) \/ FetchFails(w) PROVE Kept'
  <2> USE CacheAssumption
  <2>. PICK j \in Keys : j = KeyOf[wjob[w]]
    BY <1>2 DEF FetchSucceeds, FetchFails, TypeOK, Busy, Calls, Readers
  <2>1. /\ wphase[w] = "fetch" /\ wjob[w] \in Readers
        /\ UNCHANGED <<callerVars, tableVars, jobQueue, server, wjob>>
    BY <1>2 DEF FetchSucceeds, FetchFails, TypeOK, Busy, Calls, Readers
  <2>2. /\ waitingClients[j] # {}
        /\ \A c \in jobQueue : KeyOf[c] # j
        /\ \A x \in Workers : Busy(x) /\ KeyOf[wjob[x]] = j => x = w
    BY <2>1 DEF FlightInv, SingleFlight, Fresh, Unanswered, Underway, Busy
  <2>3. found[j] = Nil /\ Given(j) = {}
    BY <2>1 DEF Kept, KeptAt, Open
  <2>4. ASSUME NEW k \in Keys, k # j PROVE KeptAt(k)'
    <3>1. /\ found'[k] = found[k] /\ called'[k] = called[k]
          /\ Given(k)' = Given(k) /\ (Open(k)' => Open(k))
      BY <1>2, <2>1, <2>4
         DEF FetchSucceeds, FetchFails, Succeeds, Fails, TypeOK, Given, Open, callerVars,
             tableVars
    <3>. QED
      BY <3>1 DEF Kept, KeptAt
  <2>5. ASSUME FetchFails(w), tries[w] < Retries PROVE KeptAt(j)'
    <3>1. /\ found' = found /\ UNCHANGED <<wphase, wvalue>>
      BY <2>5 DEF FetchFails, Fails
    <3>2. Given(j)' = Given(j) /\ (Open(j)' => Open(j))
      BY <2>1, <3>1 DEF Given, Open, callerVars, tableVars
    <3>. QED
      BY <2>3, <3>1, <3>2 DEF KeptAt
  <2>6. ASSUME NEW r, wvalue' = [wvalue EXCEPT ![w] = r], wphase' = [wphase EXCEPT ![w] = "write"]
        PROVE  Given(j)' = {r} /\ ~Open(j)'
    <3>1. ~Open(j)'
      BY <2>1, <2>2, <2>6 DEF Open, TypeOK, Busy, tableVars
    <3>2. /\ {db[j]} \ {Nil} = {}
          /\ {reply[g] : g \in {c \in Gets : phase[c] \in {"answer", "done"} /\ KeyOf[c] = j}} = {}
          /\ (IF server = "broadcast" /\ cast.key = j THEN {cast.value} ELSE {}) = {}
      BY <2>3 DEF Given
    <3>3. {x \in Workers : wphase'[x] = "write" /\ KeyOf[wjob'[x]] = j} = {w}
      BY <2>1, <2>2, <2>6 DEF TypeOK, Busy
    <3>4. wvalue'[w] = r
      BY <2>6 DEF TypeOK
    <3>5. {wvalue'[x] : x \in {y \in Workers : wphase'[y] = "write" /\ KeyOf[wjob'[y]] = j}} = {r}
      BY <3>3, <3>4
    <3>6. UNCHANGED <<db, reply, phase, server, cast>>
      BY <2>1 DEF callerVars, tableVars
    <3>7. Given(j)' = {r}
      BY <3>2, <3>5, <3>6 DEF Given
    <3>. QED
      BY <3>1, <3>7
  <2>7. ASSUME FetchFails(w), ~(tries[w] < Retries) PROVE KeptAt(j)'
    <3>1. /\ found' = found
          /\ wvalue' = [wvalue EXCEPT ![w] = Err] /\ wphase' = [wphase EXCEPT ![w] = "write"]
      BY <2>7 DEF FetchFails, Fails
    <3>2. called'[j] = Retries + 1
      <4>1. called[j] = tries[w] /\ tries[w] = Retries
        BY <2>1, <2>7 DEF Counted, TypeOK
      <4>. QED
        BY <2>1, <2>7, <4>1 DEF FetchFails, Fails, TypeOK
    <3>3. Given(j)' = {Err} /\ ~Open(j)'
      BY <2>6, <3>1
    <3>. QED
      BY <2>3, <3>1, <3>2, <3>3 DEF KeptAt
  <2>8. ASSUME FetchSucceeds(w) PROVE KeptAt(j)'
    <3>1. PICK v \in Values :
            Succeeds(w, v) /\ wvalue' = [wvalue EXCEPT ![w] = v] /\ wphase' = [wphase EXCEPT ![w] = "write"]
      BY <2>8 DEF FetchSucceeds
    <3>2. found'[j] = v /\ v # Nil
      BY <2>1, <2>3, <3>1 DEF Succeeds, TypeOK, Results
    <3>3. Given(j)' = {v} /\ ~Open(j)'
      BY <2>6, <3>1
    <3>. QED
      BY <3>2, <3>3 DEF KeptAt
  <2>9. KeptAt(j)'
    BY <1>2, <2>5, <2>7, <2>8
  <2>. QED
    BY <2>4, <2>9 DEF Kept
<1>. QED
  BY <1>1, <1>2

-----------------------------------------------------------------------------
(***************************************************************************)
(* Closing                                                                 *)
(***************************************************************************)

\* Once Wait has returned, jobQueue is closed and no worker is at work: a worker
\* that starts late only finds the closed queue.
Ended ==
  /\ waited => QueueClosed /\ \A w \in Workers : ~Busy(w)
  /\ server = "gone" => waited

LEMMA EndedStep == TypeOK /\ Ended /\ [Next]_vars => Ended'
<1> SUFFICES ASSUME TypeOK, Ended, [Next]_vars PROVE Ended'
  OBVIOUS
<1> USE DEF TypeOK, Ended, QueueClosed, Busy
<1> USE DEF callerVars, tableVars, workerVars, notes, closeVars
<1>1. CASE UNCHANGED <<server, waited, wphase>>
  BY <1>1
<1>2. ASSUME NEW w \in Workers, Write(w) \/ Drain(w) PROVE Ended'
  BY <1>2 DEF Write, Publish, Drain
<1>3. ASSUME NEW c \in Gets, Broadcast(c) PROVE Ended'
  BY <1>3 DEF Broadcast
<1>4. CASE SeeClosed \/ Finish \/ WaitReturns
  BY <1>4 DEF SeeClosed, Finish, WaitReturns
<1>5. ASSUME NEW c \in Readers, ReadZero(c) PROVE Ended'
  BY <1>5 DEF ReadZero
<1>6. ASSUME NEW w \in Workers, NEW c \in Readers, TakeJob(w, c) PROVE Ended'
  BY <1>6 DEF TakeJob
<1>7. ASSUME NEW w \in Workers, StartWorker(w) \/ ExitWorker(w) PROVE Ended'
  BY <1>7 DEF StartWorker, ExitWorker
<1>8. ASSUME NEW w \in Workers, FetchSucceeds(w) \/ FetchFails(w) PROVE Ended'
  BY <1>8 DEF FetchSucceeds, FetchFails
<1>. QED
  BY <1>1, <1>2, <1>3, <1>4, <1>5, <1>6, <1>7, <1>8
     DEF Next, ServerStep, ServerReads, WorkerStep, Rest, Dead, vars, Call, Answer, Close,
         ReadHit, ReadJoin, ReadMiss, PeekRead, SendOnClosed, StartTooLate

-----------------------------------------------------------------------------
(***************************************************************************)
(* Invariance                                                              *)
(***************************************************************************)

IndInv == TypeOK /\ FlightInv /\ Counted /\ Served /\ Kept /\ Ended

LEMMA IndInvInit == Init => IndInv
<1>1. Init => Ended
  BY DEF Init, Ended
<1>. QED
  BY <1>1, TypeInit, FlightInit, CountedInit, ServedInit, KeptInit DEF IndInv

LEMMA IndInvStep == IndInv /\ [Next]_vars => IndInv'
BY TypeStep, FlightStep, CountedStep, ServedStep, KeptStep, EndedStep DEF IndInv

\* The inductive invariant holds in every reachable state of a session.
THEOREM Invariance == SafeSpec => []IndInv
BY IndInvInit, IndInvStep, PTL DEF SafeSpec

\* Every variable keeps its type, a busy worker has a request and retries stay
\* within Retries, for any number of callers and workers.
THEOREM TypeCorrect == SafeSpec => []TypeOK
<1>1. IndInv => TypeOK
  BY DEF IndInv
<1>. QED
  BY <1>1, Invariance, PTL

\* At most one request per key is ever with the workers (cache.go:131-157).
THEOREM OneRequestPerKey == SafeSpec => []SingleFlight
<1>1. IndInv => SingleFlight
  BY DEF IndInv, FlightInv
<1>. QED
  BY <1>1, Invariance, PTL

\* The Updater is called for a key at most Retries + 1 times in the whole life of
\* the session (cache.go:204-210).
THEOREM UpdaterBounded == SafeSpec => []UpdaterCalls
<1>1. IndInv => UpdaterCalls
  BY DEF IndInv, Counted
<1>. QED
  BY <1>1, Invariance, PTL

\* A value the Updater has returned is what the workers write, the table holds and the
\* Gets return, and an error is given out only when every try has failed
\* (cache.go:202-228).
THEOREM SuccessServed == SafeSpec => []SuccessIsServed
<1>1. IndInv => SuccessIsServed
  BY DEF IndInv, Kept, KeptAt, SuccessIsServed
<1>. QED
  BY <1>1, Invariance, PTL

\* Every receiver the server sends to in its broadcast is blocked on its channel,
\* so the synchronous sends go through (cache.go:176-182).
THEOREM BroadcastNeverBlocks == SafeSpec => []BroadcastReachesWaiters
<1>1. IndInv => BroadcastReachesWaiters
  BY DEF IndInv, FlightInv
<1>. QED
  BY <1>1, Invariance, PTL

\* With CacheOnError no Get is left on a list that nobody will serve.
THEOREM NoneForgotten == SafeSpec => []NoOrphanWaiter
<1>1. IndInv => NoOrphanWaiter
  BY DEF IndInv, Served
<1>. QED
  BY <1>1, Invariance, PTL

\* Nobody writes to writeChan after the server closed it (cache.go:93-97).
THEOREM CloseIsSafe == SafeSpec => []WriteChanSafe
<1>1. IndInv => WriteChanSafe
  BY DEF IndInv, Ended, WriteChanSafe
<1>. QED
  BY <1>1, Invariance, PTL

\* The only step that changes the table is a worker's write, which finds no entry.
LEMMA StableStep ==
  ASSUME IndInv, [Next]_vars, NEW k \in Keys
  PROVE  (db[k] # Nil => db'[k] = db[k]) /\ (~CacheOnError => db'[k] # Err)
<1> USE DEF IndInv, TypeOK
<1>1. IndInv'
  BY IndInvStep
<1>2. ~CacheOnError => db'[k] # Err
  BY <1>1 DEF Served
<1>3. CASE UNCHANGED db
  BY <1>2, <1>3
<1>4. ASSUME NEW w \in Workers, Write(w) PROVE db[k] # Nil => db'[k] = db[k]
  BY <1>4 DEF Write, Publish, Stored, FlightInv, SingleFlight, Underway, Busy
<1>. QED
  BY <1>2, <1>3, <1>4
     DEF Next, ServerStep, ServerReads, WorkerStep, Rest, Dead, vars, Call, Answer, Close,
         ReadHit, ReadJoin, ReadMiss, ReadZero, PeekRead, Broadcast, SeeClosed, Finish,
         WaitReturns, SendOnClosed, StartTooLate, StartWorker, TakeJob, FetchSucceeds, FetchFails,
         ExitWorker, Drain, callerVars, tableVars, workerVars, closeVars

\* A cached result is never replaced or dropped, and errors are cached only with
\* CacheOnError (cache.go:168-174).
THEOREM CacheStability == SafeSpec => CacheIsStable
<1>1. IndInv /\ [Next]_vars => TableStep
  BY StableStep DEF TableStep
<1>. QED
  BY <1>1, Invariance, PTL DEF SafeSpec, CacheIsStable

-----------------------------------------------------------------------------
(***************************************************************************)
(* Refinement of FetchOnce                                                 *)
(***************************************************************************)

LEMMA AbsInit == Init => Abs!Init
BY CacheAssumption DEF Init, Abs!Init, Asked, State, Returned, Calls, Readers

LEMMA AbsStep ==
  ASSUME CacheOnError, IndInv, [Next]_vars
  PROVE  [Abs!Next]_(Abs!vars)
<1> USE CacheAssumption DEF IndInv, TypeOK, Calls, Readers, Results
<1> USE DEF callerVars, tableVars, workerVars, notes, closeVars
<1>1. ASSUME NEW c \in Gets, Call(c) PROVE Abs!Call(c)
  <2>1. State[c] = "idle" /\ State' = [State EXCEPT ![c] = "pending"]
    BY <1>1 DEF Call, State
  <2>2. Asked' = Asked \cup {KeyOf[c]}
    BY <1>1 DEF Call, Asked
  <2>3. Returned' = Returned /\ db' = db
    BY <1>1 DEF Call, Returned
  <2>. QED
    BY <2>1, <2>2, <2>3 DEF Abs!Call
<1>2. ASSUME NEW c \in Prepares, Call(c) PROVE Abs!Announce(KeyOf[c])
  BY <1>2 DEF Call, Abs!Announce, Asked, State, Returned
<1>3. ASSUME NEW c \in Peeks, Call(c) PROVE UNCHANGED Abs!vars
  BY <1>3 DEF Call, Abs!vars, Asked, State, Returned
<1>4. ASSUME NEW c \in Gets, Answer(c) PROVE Abs!Return(c)
  <2>1. State[c] = "pending" /\ State' = [State EXCEPT ![c] = "done"]
    BY <1>4 DEF Answer, State
  <2>2. Asked' = Asked /\ db' = db
    BY <1>4 DEF Answer, Asked
  <2>3. db[KeyOf[c]] # Nil /\ reply[c] = db[KeyOf[c]]
    BY <1>4 DEF Answer, Served
  <2>4. Returned' = [Returned EXCEPT ![c] = reply[c]]
    BY <1>4 DEF Answer, Returned
  <2>. QED
    BY <2>1, <2>2, <2>3, <2>4 DEF Abs!Return
<1>5. ASSUME NEW c \in Calls \ Gets, Answer(c) PROVE UNCHANGED Abs!vars
  BY <1>5 DEF Answer, Abs!vars, Asked, State, Returned
<1>6. ASSUME NEW c \in Readers, ReadHit(c) PROVE UNCHANGED Abs!vars
  BY <1>6 DEF ReadHit, CanRead, Abs!vars, Asked, State, Returned
<1>7. ASSUME NEW c \in Readers, ReadJoin(c) PROVE UNCHANGED Abs!vars
  BY <1>7 DEF ReadJoin, CanRead, MissPhase, Abs!vars, Asked, State, Returned
<1>8. ASSUME NEW c \in Readers, ReadMiss(c) PROVE UNCHANGED Abs!vars
  BY <1>8 DEF ReadMiss, CanRead, MissPhase, Abs!vars, Asked, State, Returned
<1>9. ASSUME NEW c \in Readers, ReadZero(c) PROVE UNCHANGED Abs!vars
  BY <1>9 DEF ReadZero, IsZero, Abs!vars, Asked, State, Returned
<1>10. ASSUME NEW c \in Peeks, PeekRead(c) PROVE UNCHANGED Abs!vars
  BY <1>10 DEF PeekRead, Abs!vars, Asked, State, Returned
<1>11. ASSUME NEW w \in Workers, Write(w) PROVE Abs!Resolve(KeyOf[wjob[w]])
  <2>1. wjob[w] \in Readers /\ KeyOf[wjob[w]] \in Asked
    BY <1>11 DEF Write, Publish, Busy, Served, Asked
  <2>2. db[KeyOf[wjob[w]]] = Nil
    BY <1>11, <2>1 DEF Write, Publish, Busy, FlightInv, SingleFlight, Underway
  <2>3. db' = [db EXCEPT ![KeyOf[wjob[w]]] = wvalue[w]] /\ wvalue[w] \in Results
    BY <1>11 DEF Write, Publish, Stored
  <2>4. UNCHANGED <<Asked, State, Returned>>
    BY <1>11 DEF Write, Publish, Asked, State, Returned
  <2>. QED
    BY <2>1, <2>2, <2>3, <2>4 DEF Abs!Resolve
<1>12. ASSUME NEW c \in Gets, Broadcast(c) PROVE Abs!Return(c)
  <2>1. State[c] = "pending" /\ State' = [State EXCEPT ![c] = "done"]
    BY <1>12 DEF Broadcast, State
  <2>2. Asked' = Asked /\ db' = db
    BY <1>12 DEF Broadcast, Asked
  <2>3. db[KeyOf[c]] # Nil /\ cast.value = db[KeyOf[c]]
    BY <1>12 DEF Broadcast, FlightInv, Casting, BroadcastReachesWaiters
  <2>4. Returned' = [Returned EXCEPT ![c] = cast.value]
    BY <1>12 DEF Broadcast, Returned
  <2>. QED
    BY <2>1, <2>2, <2>3, <2>4 DEF Abs!Return
<1>13. CASE UNCHANGED <<callerVars, db>>
  BY <1>13 DEF Abs!vars, Asked, State, Returned
<1>14. \/ \E c \in Calls : Call(c) \/ Answer(c)
       \/ \E c \in Readers : ServerReads(c)
       \/ \E c \in Peeks : PeekRead(c)
       \/ \E w \in Workers : Write(w)
       \/ \E c \in Gets : Broadcast(c)
       \/ UNCHANGED <<callerVars, db>>
  BY DEF Next, ServerStep, WorkerStep, Rest, Dead, vars, Close, SeeClosed, Finish,
         WaitReturns, SendOnClosed, StartTooLate, StartWorker, TakeJob, FetchSucceeds, FetchFails,
         ExitWorker, Drain
<1>15. ASSUME NEW c \in Calls, Call(c) PROVE [Abs!Next]_(Abs!vars)
  BY <1>1, <1>2, <1>3, <1>15 DEF Abs!Next
<1>16. ASSUME NEW c \in Calls, Answer(c) PROVE [Abs!Next]_(Abs!vars)
  BY <1>4, <1>5, <1>16 DEF Abs!Next
<1>17. ASSUME NEW w \in Workers, Write(w) PROVE Abs!Next
  <2>1. KeyOf[wjob[w]] \in Keys
    BY <1>17 DEF Write, Publish, Busy
  <2>. QED
    BY <2>1, <1>11, <1>17 DEF Abs!Next
<1>18. ASSUME NEW c \in Gets, Broadcast(c) PROVE Abs!Next
  BY <1>12, <1>18 DEF Abs!Next
<1>. QED
  BY <1>6, <1>7, <1>8, <1>9, <1>10, <1>13, <1>14, <1>15, <1>16, <1>17, <1>18 DEF ServerReads

\* With CacheOnError, as both caches of the program are made, the session does what
\* FetchOnce promises: a key is resolved once, after it was asked for, and every
\* Get that returns returns that result (cache.go:104-266).
THEOREM Refinement ==
  ASSUME CacheOnError
  PROVE  SafeSpec => Abs!SafeSpec
<1>1. IndInv /\ [Next]_vars => [Abs!Next]_(Abs!vars)
  BY AbsStep
<1>. QED
  BY <1>1, AbsInit, Invariance, PTL DEF SafeSpec, Abs!SafeSpec
=============================================================================
