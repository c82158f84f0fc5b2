---------------------------- MODULE CacheSession ----------------------------
(***************************************************************************)
(* The in-memory cache of src/cache.go: a server goroutine that owns the   *)
(* table db, a fixed pool of worker goroutines that call the Updater, and  *)
(* any number of callers of Get, Prepare and Peek.  They meet on four      *)
(* unbuffered channels, so that a send and its receive are one step:       *)
(*                                                                         *)
(*   caller -> readChan, peekChan -> server                                *)
(*   server -> jobQueue (a goroutine per job) -> worker                    *)
(*   worker -> writeChan -> server                                         *)
(*   server -> the caller's own reply channel                              *)
(*                                                                         *)
(* A Get, a Prepare and a Peek are invocations: each happens at most once  *)
(* and may not happen at all, so the constants bound how many requests are *)
(* made and nothing else.                                                  *)
(***************************************************************************)
EXTENDS Naturals

CONSTANTS
  Keys,          \* the keys
  Gets,          \* the invocations of Get
  Prepares,      \* the invocations of Prepare (each is a goroutine)
  Peeks,         \* the invocations of Peek
  KeyOf,         \* KeyOf[c]: the key of invocation c
  EmptyKey,      \* the empty string, which need not be in Keys
  Workers,       \* the worker goroutines
  Values,        \* the values the Updater can return
  Err,           \* an error the Updater can return
  Nil,           \* Go's nil: no entry, no receiver, no reply yet
  Retries,       \* CacheSession.Retries
  CacheOnError,  \* CacheSession.CacheOnError
  MayClose       \* whether the owner calls Close

Readers == Gets \cup Prepares
Calls   == Readers \cup Peeks
Results == Values \cup {Err}

ASSUME CacheAssumption ==
  /\ Gets \cap Prepares = {} /\ Readers \cap Peeks = {}
  /\ KeyOf \in [Calls -> Keys]
  /\ Err \notin Values
  /\ Nil \notin Results \cup Calls
  /\ Retries \in Nat
  /\ CacheOnError \in BOOLEAN /\ MayClose \in BOOLEAN

VARIABLES
  phase,           \* phase[c]: how far invocation c has got
  reply,           \* reply[c]: what the server answered to c
  db,              \* db[k]: the cached result, or Nil
  waitingClients,  \* waitingClients[k]: the receivers listed under k, {} when absent
  jobQueue,        \* the requests whose goroutine is blocked sending to jobQueue
  server,          \* where the server goroutine is
  cast,            \* the write being broadcast: its key, value and receivers left
  wphase,          \* wphase[w]: where worker w is
  wjob,            \* wjob[w]: the request w is working on
  tries,           \* tries[w]: the failed calls of the Updater for that request
  wvalue,          \* wvalue[w]: what w is about to write
  closed,          \* Close was called
  waited,          \* finalize's WaitGroup.Wait has returned
  panicked,        \* a goroutine sent on a closed channel: the process died
  called,          \* called[k]: how often the Updater was called with k
  found            \* found[k]: what the first of these calls to succeed returned, or Nil

callerVars == <<phase, reply>>
tableVars  == <<db, waitingClients, cast>>
notes      == <<called, found>>
workerVars == <<wphase, wjob, tries, wvalue, notes>>
closeVars  == <<closed, waited, panicked>>
vars == <<callerVars, tableVars, jobQueue, server, workerVars, closeVars>>

NoCast == [key |-> Nil, value |-> Nil, left |-> {}]

Init ==
  /\ phase = [c \in Calls |-> "idle"]
  /\ reply = [c \in Calls |-> Nil]
  /\ db = [k \in Keys |-> Nil]
  /\ waitingClients = [k \in Keys |-> {}]
  /\ jobQueue = {}
  /\ server = "select"
  /\ cast = NoCast
  /\ wphase = [w \in Workers |-> "new"]
  /\ wjob = [w \in Workers |-> Nil]
  /\ tries = [w \in Workers |-> 0]
  /\ wvalue = [w \in Workers |-> Nil]
  /\ closed = FALSE
  /\ waited = FALSE
  /\ panicked = FALSE
  /\ called = [k \in Keys |-> 0]
  /\ found = [k \in Keys |-> Nil]

-----------------------------------------------------------------------------
(***************************************************************************)
(* Callers                                                                 *)
(***************************************************************************)

\* Get, Prepare or Peek is called and its goroutine blocks sending the request.
\* No caller of the repository uses a session it has closed.
Call(c) ==
  /\ ~closed
  /\ phase[c] = "idle"
  /\ phase' = [phase EXCEPT ![c] = "send"]
  /\ UNCHANGED <<reply, tableVars, jobQueue, server, workerVars, closeVars>>

\* The goroutine the server started for an answer meets the caller, who returns.
Answer(c) ==
  /\ phase[c] = "answer"
  /\ phase' = [phase EXCEPT ![c] = "done"]
  /\ UNCHANGED <<reply, tableVars, jobQueue, server, workerVars, closeVars>>

\* Close, called as the tests and the command-line drivers of the repository call
\* it: when every Get and Peek that was made has returned.
Close ==
  /\ MayClose
  /\ ~closed
  /\ \A c \in Gets \cup Peeks : phase[c] \in {"idle", "done"}
  /\ closed' = TRUE
  /\ UNCHANGED <<callerVars, tableVars, jobQueue, server, workerVars, waited, panicked>>

-----------------------------------------------------------------------------
(***************************************************************************)
(* The server goroutine                                                    *)
(***************************************************************************)

\* A ReadRequest equal to the zero value: no receiver and the empty key.
IsZero(c) == c \in Prepares /\ KeyOf[c] = EmptyKey

\* What a request appends to waitingClients: Prepare has no receiver.
Receiver(c) == IF c \in Gets THEN c ELSE Nil

\* A request the server can take from readChan now.
CanRead(c) ==
  /\ server = "select"
  /\ ~closed
  /\ phase[c] = "send"
  /\ ~IsZero(c)

\* The key is in db: a new goroutine offers the value to the receiver.
ReadHit(c) ==
  /\ CanRead(c)
  /\ db[KeyOf[c]] # Nil
  /\ IF c \in Gets
     THEN /\ phase' = [phase EXCEPT ![c] = "answer"]
          /\ reply' = [reply EXCEPT ![c] = db[KeyOf[c]]]
     ELSE /\ phase' = [phase EXCEPT ![c] = "done"]
          /\ UNCHANGED reply
  /\ UNCHANGED <<tableVars, jobQueue, server, workerVars, closeVars>>

\* A miss leaves a Get blocked on its reply channel; Prepare's goroutine ends.
MissPhase(c) == IF c \in Gets THEN "wait" ELSE "done"

\* The key is being fetched already: the receiver, if any, joins the list.
ReadJoin(c) ==
  LET k == KeyOf[c] IN
  /\ CanRead(c)
  /\ db[k] = Nil
  /\ waitingClients[k] # {}
  /\ phase' = [phase EXCEPT ![c] = MissPhase(c)]
  /\ waitingClients' =
       [waitingClients EXCEPT ![k] = IF c \in Gets THEN @ \cup {c} ELSE @]
  /\ UNCHANGED <<reply, db, cast, jobQueue, server, workerVars, closeVars>>

\* Variant: the waiting list is not consulted before a request is queued.
ReadMissAlways(c) ==
  LET k == KeyOf[c] IN
  /\ CanRead(c)
  /\ db[k] = Nil
  /\ phase' = [phase EXCEPT ![c] = MissPhase(c)]
  /\ waitingClients' = [waitingClients EXCEPT ![k] = @ \cup {Receiver(c)}]
  /\ jobQueue' = jobQueue \cup {c}
  /\ UNCHANGED <<reply, db, cast, server, workerVars, closeVars>>

\* Variant: a Prepare, having no receiver, leaves no mark in waitingClients.
ReadMissUnlisted(c) ==
  LET k == KeyOf[c] IN
  /\ CanRead(c)
  /\ db[k] = Nil
  /\ waitingClients[k] = {}
  /\ phase' = [phase EXCEPT ![c] = MissPhase(c)]
  /\ waitingClients' =
       [waitingClients EXCEPT ![k] = IF c \in Gets THEN @ \cup {c} ELSE @]
  /\ jobQueue' = jobQueue \cup {c}
  /\ UNCHANGED <<reply, db, cast, server, workerVars, closeVars>>

\* Nobody has asked for the key: list the receiver, nil or not, and hand the
\* request to a goroutine that sends it to the workers.
ReadMiss(c) ==
  LET k == KeyOf[c] IN
  /\ CanRead(c)
  /\ db[k] = Nil
  /\ waitingClients[k] = {}
  /\ phase' = [phase EXCEPT ![c] = MissPhase(c)]
  /\ waitingClients' = [waitingClients EXCEPT ![k] = @ \cup {Receiver(c)}]
  /\ jobQueue' = jobQueue \cup {c}
  /\ UNCHANGED <<reply, db, cast, server, workerVars, closeVars>>

\* Peek: the answer is computed now and offered by a goroutine of its own.
\* (After Close the closed peekChan yields zero requests, which change nothing.)
PeekRead(c) ==
  /\ server = "select"
  /\ phase[c] = "send"
  /\ phase' = [phase EXCEPT ![c] = "answer"]
  /\ reply' = [reply EXCEPT ![c] = (db[KeyOf[c]] # Nil)]
  /\ UNCHANGED <<tableVars, jobQueue, server, workerVars, closeVars>>

\* What the server does with a WriteRequest, once it has the table it leaves.
Publish(w, table) ==
  LET k == KeyOf[wjob[w]]
      left == waitingClients[k] \ {Nil}
  IN
  /\ server = "select"
  /\ wphase[w] = "write"
  /\ db' = table
  /\ cast' = IF left = {} THEN NoCast ELSE [key |-> k, value |-> wvalue[w], left |-> left]
  /\ server' = IF left = {} THEN "select" ELSE "broadcast"
  /\ wphase' = [wphase EXCEPT ![w] = "idle"]
  /\ wjob' = [wjob EXCEPT ![w] = Nil]
  /\ wvalue' = [wvalue EXCEPT ![w] = Nil]
  /\ UNCHANGED <<callerVars, waitingClients, jobQueue, tries, notes, closeVars>>

\* The table with the result that worker w has written.
Stored(w) == [db EXCEPT ![KeyOf[wjob[w]]] = wvalue[w]]

\* Variant: errors are stored whatever CacheOnError says.
WriteAll(w) == Publish(w, Stored(w))

\* Variant: errors are never stored.
WriteNoError(w) == Publish(w, IF wvalue[w] = Err THEN db ELSE Stored(w))

\* A worker's WriteRequest: store it, unless it is an error that is not to be
\* cached, then serve the listed receivers one after the other.  The list stays.
Write(w) ==
  Publish(w, IF wvalue[w] = Err /\ ~CacheOnError THEN db ELSE Stored(w))

\* Variant: the broadcast ends after its first receiver.
BroadcastOne(c) ==
  /\ server = "broadcast"
  /\ c \in cast.left
  /\ phase[c] = "wait"
  /\ phase' = [phase EXCEPT ![c] = "done"]
  /\ reply' = [reply EXCEPT ![c] = cast.value]
  /\ cast' = NoCast
  /\ server' = "select"
  /\ UNCHANGED <<db, waitingClients, jobQueue, workerVars, closeVars>>

\* One synchronous send of the broadcast.  The receiver must be blocked on its
\* channel: until it is, the server does nothing else.
Broadcast(c) ==
  /\ server = "broadcast"
  /\ c \in cast.left
  /\ phase[c] = "wait"
  /\ phase' = [phase EXCEPT ![c] = "done"]
  /\ reply' = [reply EXCEPT ![c] = cast.value]
  /\ IF cast.left = {c}
     THEN cast' = NoCast /\ server' = "select"
     ELSE cast' = [cast EXCEPT !.left = @ \ {c}] /\ UNCHANGED server
  /\ UNCHANGED <<db, waitingClients, jobQueue, workerVars, closeVars>>

\* A zero ReadRequest means "closed" to the server: finalize closes jobQueue.
\* readChan yields one when it is closed ...
SeeClosed ==
  /\ server = "select"
  /\ closed
  /\ server' = "finalize"
  /\ UNCHANGED <<callerVars, tableVars, jobQueue, workerVars, closeVars>>

\* ... and also when a Prepare of the empty key is read.
ReadZero(c) ==
  /\ server = "select"
  /\ ~closed
  /\ phase[c] = "send"
  /\ IsZero(c)
  /\ server' = "finalize"
  /\ phase' = [phase EXCEPT ![c] = "done"]
  /\ UNCHANGED <<reply, tableVars, jobQueue, workerVars, closeVars>>

\* Variant: finalize waits for the workers and receives nothing meanwhile.
DrainNothing(w) == FALSE

\* finalize throws away what the workers still write.
Drain(w) ==
  /\ server = "finalize"
  /\ wphase[w] = "write"
  /\ wphase' = [wphase EXCEPT ![w] = "idle"]
  /\ wjob' = [wjob EXCEPT ![w] = Nil]
  /\ wvalue' = [wvalue EXCEPT ![w] = Nil]
  /\ UNCHANGED <<callerVars, tableVars, jobQueue, server, tries, notes, closeVars>>

\* Variant: finalize does not wait for the workers.
WaitReturnsAtOnce ==
  /\ server = "finalize"
  /\ ~waited
  /\ waited' = TRUE
  /\ UNCHANGED <<callerVars, tableVars, jobQueue, server, workerVars, closed, panicked>>

\* The goroutine of finalize: the WaitGroup counts the workers between their
\* Add(1) and their Done(), and a worker that has not run yet is not among them.
WaitReturns ==
  /\ server = "finalize"
  /\ ~waited
  /\ \A w \in Workers : wphase[w] \in {"new", "exit"}
  /\ waited' = TRUE
  /\ UNCHANGED <<callerVars, tableVars, jobQueue, server, workerVars, closed, panicked>>

\* finalize closes writeChan and the server goroutine ends.
Finish ==
  /\ server = "finalize"
  /\ waited
  /\ server' = "gone"
  /\ UNCHANGED <<callerVars, tableVars, jobQueue, workerVars, closeVars>>

-----------------------------------------------------------------------------
(***************************************************************************)
(* The worker goroutines                                                   *)
(***************************************************************************)

QueueClosed == server \in {"finalize", "gone"}

\* The goroutine runs for the first time: workers.Add(1).
StartWorker(w) ==
  /\ wphase[w] = "new"
  /\ wphase' = [wphase EXCEPT ![w] = "idle"]
  /\ UNCHANGED <<callerVars, tableVars, jobQueue, server, wjob, tries, wvalue, notes, closeVars>>

\* The worker receives a request from the goroutine that was sending it.
TakeJob(w, c) ==
  /\ wphase[w] = "idle"
  /\ ~QueueClosed
  /\ c \in jobQueue
  /\ jobQueue' = jobQueue \ {c}
  /\ wphase' = [wphase EXCEPT ![w] = "fetch"]
  /\ wjob' = [wjob EXCEPT ![w] = c]
  /\ UNCHANGED <<callerVars, tableVars, server, tries, wvalue, notes, closeVars>>

\* A call of the Updater is counted, and its value kept if it is the first.
Succeeds(w, v) ==
  LET k == KeyOf[wjob[w]] IN
  /\ called' = [called EXCEPT ![k] = @ + 1]
  /\ found' = [found EXCEPT ![k] = IF @ = Nil THEN v ELSE @]

Fails(w) ==
  /\ called' = [called EXCEPT ![KeyOf[wjob[w]]] = @ + 1]
  /\ UNCHANGED found

\* Variant: the loop goes on after a success.
FetchSucceedsGoesOn(w) ==
  /\ wphase[w] = "fetch"
  /\ \E v \in Values :
       /\ Succeeds(w, v)
       /\ IF tries[w] < Retries
          THEN UNCHANGED <<wphase, wvalue>>
          ELSE wvalue' = [wvalue EXCEPT ![w] = v] /\ wphase' = [wphase EXCEPT ![w] = "write"]
  /\ tries' = [tries EXCEPT ![w] = IF @ < Retries THEN @ + 1 ELSE 0]
  /\ UNCHANGED <<callerVars, tableVars, jobQueue, server, wjob, closeVars>>

\* One call of the Updater succeeds: the loop is left with a value.
FetchSucceeds(w) ==
  /\ wphase[w] = "fetch"
  /\ \E v \in Values : Succeeds(w, v) /\ wvalue' = [wvalue EXCEPT ![w] = v]
  /\ wphase' = [wphase EXCEPT ![w] = "write"]
  /\ tries' = [tries EXCEPT ![w] = 0]
  /\ UNCHANGED <<callerVars, tableVars, jobQueue, server, wjob, closeVars>>

\* Variant: one retry too many.
FetchFailsOnceMore(w) ==
  /\ wphase[w] = "fetch"
  /\ Fails(w)
  /\ IF tries[w] <= Retries
     THEN /\ tries' = [tries EXCEPT ![w] = @ + 1]
          /\ UNCHANGED <<wphase, wvalue>>
     ELSE /\ tries' = [tries EXCEPT ![w] = 0]
          /\ wphase' = [wphase EXCEPT ![w] = "write"]
          /\ wvalue' = [wvalue EXCEPT ![w] = Err]
  /\ UNCHANGED <<callerVars, tableVars, jobQueue, server, wjob, closeVars>>

\* One call of the Updater fails: try again, or give up with the error after
\* Retries + 1 calls.
FetchFails(w) ==
  /\ wphase[w] = "fetch"
  /\ Fails(w)
  /\ IF tries[w] < Retries
     THEN /\ tries' = [tries EXCEPT ![w] = @ + 1]
          /\ UNCHANGED <<wphase, wvalue>>
     ELSE /\ tries' = [tries EXCEPT ![w] = 0]
          /\ wphase' = [wphase EXCEPT ![w] = "write"]
          /\ wvalue' = [wvalue EXCEPT ![w] = Err]
  /\ UNCHANGED <<callerVars, tableVars, jobQueue, server, wjob, closeVars>>

\* The range over the closed jobQueue ends: workers.Done().
ExitWorker(w) ==
  /\ wphase[w] = "idle"
  /\ QueueClosed
  /\ wphase' = [wphase EXCEPT ![w] = "exit"]
  /\ UNCHANGED <<callerVars, tableVars, jobQueue, server, wjob, tries, wvalue, notes, closeVars>>

-----------------------------------------------------------------------------
(***************************************************************************)
(* Panics                                                                  *)
(***************************************************************************)

\* A goroutine blocked sending on readChan when Close closes it, or on jobQueue
\* when finalize closes it, panics, and the process with it.
SendOnClosed(c) ==
  /\ \/ phase[c] = "send" /\ closed
     \/ c \in jobQueue /\ QueueClosed
  /\ panicked' = TRUE
  /\ UNCHANGED <<callerVars, tableVars, jobQueue, server, workerVars, closed, waited>>

\* workers.Add(1) of a goroutine that first runs when the last worker has ended and the
\* goroutine of finalize is being woken up: Add or Wait sees that it meets the other, and
\* panics.
StartTooLate(w) ==
  /\ wphase[w] = "new"
  /\ server = "finalize" /\ ~waited
  /\ \A x \in Workers : wphase[x] \in {"new", "exit"}
  /\ \E x \in Workers : wphase[x] = "exit"
  /\ panicked' = TRUE
  /\ UNCHANGED <<callerVars, tableVars, jobQueue, server, workerVars, closed, waited>>

-----------------------------------------------------------------------------
(***************************************************************************)
(* Specification                                                           *)
(***************************************************************************)

ServerReads(c) == ReadHit(c) \/ ReadJoin(c) \/ ReadMiss(c) \/ ReadZero(c)

ServerStep ==
  \/ \E c \in Readers : ServerReads(c)
  \/ \E c \in Peeks : PeekRead(c)
  \/ \E w \in Workers : Write(w) \/ Drain(w)
  \/ \E c \in Gets : Broadcast(c)
  \/ SeeClosed \/ Finish

WorkerStep(w) ==
  \/ StartWorker(w) \/ FetchSucceeds(w) \/ FetchFails(w) \/ ExitWorker(w)
  \/ \E c \in Readers : TakeJob(w, c)

\* Nothing is under way: every call made has returned and the goroutines wait
\* for requests, or the session is over.  A state with no other step that is
\* not such a state is a deadlock.
Rest ==
  /\ \A c \in Calls : phase[c] \in {"idle", "done"}
  /\ jobQueue = {}
  /\ \A w \in Workers : wphase[w] \in {"idle", "exit"}
  /\ server \in {"select", "gone"}
  /\ UNCHANGED vars

\* The process is dead.
Dead == panicked /\ UNCHANGED vars

Next ==
  \/ /\ ~panicked
     /\ \/ \E c \in Calls : Call(c) \/ Answer(c)
        \/ Close
        \/ ServerStep
        \/ WaitReturns
        \/ \E w \in Workers : WorkerStep(w) \/ StartTooLate(w)
        \/ \E c \in Readers : SendOnClosed(c)
        \/ Rest
  \/ Dead

\* The Go scheduler runs every runnable goroutine, select picks among its ready
\* cases at random, and the Updater's calls return.  Nobody has to call anything.
Fairness ==
  /\ WF_vars(~panicked /\ ServerStep)
  /\ WF_vars(~panicked /\ WaitReturns)
  /\ \A w \in Workers : WF_vars(~panicked /\ WorkerStep(w))
  /\ \A c \in Calls : WF_vars(~panicked /\ Answer(c))

SafeSpec == Init /\ [][Next]_vars

Spec == SafeSpec /\ Fairness

-----------------------------------------------------------------------------
(***************************************************************************)
(* Properties                                                              *)
(***************************************************************************)

Busy(w) == wphase[w] \in {"fetch", "write"}

\* A request for the key is on its way through the workers.
Underway(k) ==
  \/ \E c \in jobQueue : KeyOf[c] = k
  \/ \E w \in Workers : Busy(w) /\ KeyOf[wjob[w]] = k

\* Every variable has its type; a busy worker has a request, a worker that
\* writes has a result, and no worker retries more often than Retries says.
TypeOK ==
  /\ phase \in [Calls -> {"idle", "send", "wait", "answer", "done"}]
  /\ reply \in [Calls -> Results \cup BOOLEAN \cup {Nil}]
  /\ db \in [Keys -> Results \cup {Nil}]
  /\ waitingClients \in [Keys -> SUBSET (Gets \cup {Nil})]
  /\ jobQueue \subseteq Readers
  /\ server \in {"select", "broadcast", "finalize", "gone"}
  /\ cast \in [key : Keys \cup {Nil}, value : Results \cup {Nil}, left : SUBSET Gets]
  /\ wphase \in [Workers -> {"new", "idle", "fetch", "write", "exit"}]
  /\ wjob \in [Workers -> Readers \cup {Nil}]
  /\ \A w \in Workers : Busy(w) => wjob[w] \in Readers
  /\ tries \in [Workers -> 0 .. Retries]
  /\ wvalue \in [Workers -> Results \cup {Nil}]
  /\ \A w \in Workers : wphase[w] = "write" => wvalue[w] \in Results
  /\ closed \in BOOLEAN /\ waited \in BOOLEAN /\ panicked \in BOOLEAN
  /\ called \in [Keys -> Nat]
  /\ found \in [Keys -> Values \cup {Nil}]

\* However Gets and Prepares of a key race with each other and with the worker
\* that answers it, at most one request for the key is with the workers, and
\* none is once the key is cached (cache.go:131-157).
SingleFlight ==
  /\ \A c, d \in jobQueue : KeyOf[c] = KeyOf[d] => c = d
  /\ \A w, x \in Workers :
       Busy(w) /\ Busy(x) /\ KeyOf[wjob[w]] = KeyOf[wjob[x]] => w = x
  /\ \A w \in Workers, c \in jobQueue : Busy(w) => KeyOf[wjob[w]] # KeyOf[c]
  /\ \A k \in Keys : Underway(k) => db[k] = Nil

\* The Updater is called for a key no more often than one request with its
\* retries allows, over the whole life of the session (cache.go:204-210).
UpdaterCalls == \A k \in Keys : called[k] <= Retries + 1

\* The results of the key that were given out: written or about to be, broadcast, or
\* returned to a Get.
Given(k) ==
  ({db[k]} \ {Nil})
  \cup {wvalue[w] : w \in {x \in Workers : wphase[x] = "write" /\ KeyOf[wjob[x]] = k}}
  \cup {reply[g] : g \in {c \in Gets : phase[c] \in {"answer", "done"} /\ KeyOf[c] = k}}
  \cup (IF server = "broadcast" /\ cast.key = k THEN {cast.value} ELSE {})

\* A success is not lost behind the failures before it, nor to anything that comes after:
\* once a call of the Updater for the key has returned a value, that value is the only
\* result given out; an error is given out only when every try has failed
\* (cache.go:202-228).
SuccessIsServed ==
  \A k \in Keys :
    IF found[k] # Nil THEN Given(k) \subseteq {found[k]}
    ELSE Given(k) # {} => Given(k) = {Err} /\ called[k] = Retries + 1

\* The server broadcasts with synchronous sends and then closes the channels
\* (cache.go:176-182): every receiver it still has to serve is a Get blocked on
\* its channel and not answered before, or the server would block or panic.
BroadcastReachesWaiters ==
  server = "broadcast" =>
    /\ cast.left # {}
    /\ \A g \in cast.left : phase[g] = "wait" /\ KeyOf[g] = cast.key

\* With CacheOnError, a Get on the waiting list of a session that is not being
\* finalized is about to be served: a request for its key is with the workers
\* or the server is broadcasting to it (cache.go:141-156, 176-184).
NoOrphanWaiter ==
  CacheOnError /\ server \in {"select", "broadcast"} =>
    \A g \in Gets :
      phase[g] = "wait" => Underway(KeyOf[g]) \/ g \in cast.left

\* What a step may do to the table.
TableStep ==
  \A k \in Keys :
    /\ db[k] # Nil => db'[k] = db[k]
    /\ ~CacheOnError => db'[k] # Err

\* A cached result, an error included, is never replaced or dropped, and without
\* CacheOnError no error is ever cached (cache.go:168-174).
CacheIsStable == [][TableStep]_vars

\* The mapping to the table that is filled on demand: a key is asked for when a
\* Get or Prepare of it has begun, and resolved when it is in db.
Asked    == {KeyOf[c] : c \in {r \in Readers : phase[r] # "idle"}}
State    == [g \in Gets |-> IF phase[g] \in {"idle", "done"} THEN phase[g] ELSE "pending"]
Returned == [g \in Gets |-> IF phase[g] = "done" THEN reply[g] ELSE Nil]

Abs == INSTANCE FetchOnce WITH
  asked <- Asked, result <- db, state <- State, answer <- Returned

\* With CacheOnError and no Close, the server, the workers and the channels do
\* what FetchOnce says: one resolution per key, every Get of the key returns
\* it, and every Get does return (all of cache.go:104-266).
ImplementsFetchOnce == Abs!Spec

\* Every Get returns, whatever the Updater says (cache.go:255-266).
EveryGetReturns == \A g \in Gets : phase[g] = "send" ~> phase[g] = "done"

\* When the server has closed writeChan (cache.go:93-97), no worker has anything
\* left to write: no send on that closed channel, no worker blocked for ever.
WriteChanSafe == server = "gone" => \A w \in Workers : ~Busy(w)

\* However it comes to finalize, by Close or, with callers and workers busy, by a Prepare
\* of the empty key, the server and every worker come to their end, unless the process
\* panics (cache.go:76-102, 122-127).
CloseCompletes ==
  closed \/ server = "finalize" ~>
    panicked \/ (server = "gone" /\ \A w \in Workers : wphase[w] = "exit")

\* Close lets nothing panic.
NoPanic == ~panicked
=============================================================================
