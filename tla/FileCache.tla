------------------------------ MODULE FileCache ------------------------------
(***************************************************************************)
(* One cache file (a network, an image or a page of instances) shared by   *)
(* runs of the program that know nothing of each other: there is no lock   *)
(* and no renaming.  A run looks for what the file holds                   *)
(* (loadNetworkFromFile and the like), and when it gets nothing asks the   *)
(* cloud API and saves the answer (saveNetworkToFile); when the API fails, *)
(* the CacheSession has it do all that a second time, but for the pages.   *)
(*                                                                         *)
(* An inode bears the name of the run that created it.  A read and a write *)
(* are one system call each; a process may be killed between any two.      *)
(***************************************************************************)
EXTENDS Naturals

CONSTANTS
  Runs,        \* the runs of the program that need this file
  Sizes,       \* the sizes an answer of the API may have
  Expiration,  \* how long a file is good for
  Retrying,    \* the runs whose Updater is called again when the API has failed
  MaxTime,     \* bound: the clock stops here
  None, Err

ASSUME FileCacheAssumption ==
  /\ Sizes \subseteq Nat \ {0}
  /\ Expiration \in Nat /\ MaxTime \in Nat /\ Retrying \subseteq Runs
  /\ None \notin Runs /\ Err \notin Runs \cup {None}

VARIABLES
  now,      \* the clock
  path,     \* the inode the file name leads to, or None
  content,  \* content[f]: of inode f, whose answer it has, its size, if it parses
  mtime,    \* mtime[f]: when inode f was last written or truncated
  pc,       \* pc[r]: where run r is
  retried,  \* the runs whose Updater was called again
  fd,       \* fd[r]: the inode r has open
  size,     \* size[r]: the size of the answer r got from the API
  answer,   \* answer[r]: the run whose answer r works with, Err or None
  looked,   \* looked[r]: when r called os.Stat and it found the file
  seen,     \* seen[r]: the mtime of what r read
  saved,    \* the runs that have saved their answer to its end
  before,   \* before[r]: saved at that time
  after     \* after[r]: saved when r asked the API

disk  == <<path, content, mtime>>
notes == <<looked, seen, saved, before, after>>
vars  == <<now, disk, pc, retried, fd, size, answer, notes>>

Empty == [by |-> None, size |-> 0, whole |-> FALSE]

Init ==
  /\ now = 0
  /\ path = None
  /\ content = [f \in Runs |-> Empty]
  /\ mtime = [f \in Runs |-> 0]
  /\ pc = [r \in Runs |-> "look"]
  /\ retried = {}
  /\ fd = [r \in Runs |-> None]
  /\ size = [r \in Runs |-> 0]
  /\ answer = [r \in Runs |-> None]
  /\ looked = [r \in Runs |-> 0]
  /\ seen = [r \in Runs |-> 0]
  /\ saved = {}
  /\ before = [r \in Runs |-> {}]
  /\ after = [r \in Runs |-> {}]

Goto(r, to) == pc' = [pc EXCEPT ![r] = to]

-----------------------------------------------------------------------------
(***************************************************************************)
(* ReadJsonFromFileCache                                                   *)
(***************************************************************************)

Look(r) ==
  /\ pc[r] = "look"
  /\ looked' = [looked EXCEPT ![r] = now]
  /\ before' = [before EXCEPT ![r] = saved]
  /\ UNCHANGED <<now, retried, disk, fd, size, answer, seen, saved, after>>

Fresh(f) == mtime[f] + Expiration >= now

\* Variant: the age of the file is not looked at.
LookFindsAny(r) == Look(r) /\ path # None /\ Goto(r, "open")

\* os.Stat finds a file that has not expired.
LookFinds(r) == Look(r) /\ path # None /\ Fresh(path) /\ Goto(r, "open")

\* The file is not there, has expired or cannot be asked about, or Config.NoCache.
LookMisses(r) ==
  /\ pc[r] = "look"
  /\ Goto(r, "ask")
  /\ UNCHANGED <<now, retried, disk, fd, size, answer, notes>>

\* Variant: the error of opening it is not looked at.
OpenUnchecked(r) ==
  /\ pc[r] = "open"
  /\ fd' = [fd EXCEPT ![r] = path]
  /\ Goto(r, "read")
  /\ UNCHANGED <<now, retried, disk, size, answer, notes>>

\* ioutil.ReadFile opens the file, which may have gone or be another one by now.
Open(r) ==
  /\ pc[r] = "open"
  /\ \/ path # None /\ fd' = [fd EXCEPT ![r] = path] /\ Goto(r, "read")
     \/ fd' = fd /\ Goto(r, "remove")
  /\ UNCHANGED <<now, retried, disk, size, answer, notes>>

\* The data is read and parsed.
ReadParses(r) ==
  /\ pc[r] = "read"
  /\ content[fd[r]].whole
  /\ answer' = [answer EXCEPT ![r] = content[fd[r]].by]
  /\ seen' = [seen EXCEPT ![r] = mtime[fd[r]]]
  /\ fd' = [fd EXCEPT ![r] = None]
  /\ Goto(r, "done")
  /\ UNCHANGED <<now, retried, disk, size, looked, saved, before, after>>

\* Variant: a file that does not parse is one that is being written; look again.
ReadAgain(r) ==
  /\ pc[r] = "read"
  /\ Goto(r, "open")
  /\ UNCHANGED <<now, retried, disk, fd, size, answer, notes>>

\* The data cannot be read, or does not parse.
ReadFails(r) ==
  /\ pc[r] = "read"
  /\ fd' = [fd EXCEPT ![r] = None]
  /\ Goto(r, "remove")
  /\ UNCHANGED <<now, retried, disk, size, answer, notes>>

\* os.Remove removes whatever has the name now; its error is of no consequence.
Remove(r) ==
  /\ pc[r] = "remove"
  /\ path' \in {None, path}
  /\ Goto(r, "ask")
  /\ UNCHANGED <<now, retried, content, mtime, fd, size, answer, notes>>

-----------------------------------------------------------------------------
(***************************************************************************)
(* Updater, ListInstances: the API and the save                            *)
(***************************************************************************)

AskAnswered(r) ==
  /\ pc[r] = "ask"
  /\ answer' = [answer EXCEPT ![r] = r]
  /\ \E s \in Sizes : size' = [size EXCEPT ![r] = s]
  /\ after' = [after EXCEPT ![r] = saved]
  /\ Goto(r, "create")
  /\ UNCHANGED <<now, retried, disk, fd, looked, seen, saved, before>>

\* The API fails, and the Updater begins anew.
AskAgain(r) ==
  /\ pc[r] = "ask"
  /\ r \in Retrying \ retried
  /\ retried' = retried \cup {r}
  /\ Goto(r, "look")
  /\ UNCHANGED <<now, disk, fd, size, answer, notes>>

AskFails(r) ==
  /\ pc[r] = "ask"
  /\ r \notin Retrying \ retried
  /\ answer' = [answer EXCEPT ![r] = Err]
  /\ Goto(r, "done")
  /\ UNCHANGED <<now, retried, disk, fd, size, notes>>

\* os.Create truncates the file that has the name, and makes one when there is none.
CreateIn(r, f) ==
  /\ pc[r] = "create"
  /\ path' = f
  /\ fd' = [fd EXCEPT ![r] = f]
  /\ content' = [content EXCEPT ![f] = Empty]
  /\ mtime' = [mtime EXCEPT ![f] = now]
  /\ Goto(r, "write")
  /\ UNCHANGED <<now, retried, size, answer, notes>>

\* Variant: a file that exists is not touched, the answer goes to a file beside it.
CreateBeside(r) ==
  /\ pc[r] = "create"
  /\ path' = IF path = None THEN r ELSE path
  /\ fd' = [fd EXCEPT ![r] = r]
  /\ content' = [content EXCEPT ![r] = Empty]
  /\ mtime' = [mtime EXCEPT ![r] = now]
  /\ Goto(r, "write")
  /\ UNCHANGED <<now, retried, size, answer, notes>>

Create(r) == CreateIn(r, IF path = None THEN r ELSE path)

\* os.Create fails: a message is printed, the answer is used all the same.
CreateFails(r) ==
  /\ pc[r] = "create"
  /\ Goto(r, "done")
  /\ UNCHANGED <<now, retried, disk, fd, size, answer, notes>>

\* n bytes of r's answer are written over what another run may have written since
\* the file was truncated; more bytes of that stay behind them.
Put(r, n) ==
  /\ pc[r] = "write"
  /\ LET old == content[fd[r]].size
     IN content' = [content EXCEPT ![fd[r]] =
          [by |-> r, size |-> IF old > n THEN old ELSE n, whole |-> n = size[r] /\ old <= n]]
  /\ mtime' = [mtime EXCEPT ![fd[r]] = now]
  /\ fd' = [fd EXCEPT ![r] = None]
  /\ size' = [size EXCEPT ![r] = 0]
  /\ Goto(r, "done")
  /\ UNCHANGED <<now, retried, path, answer, looked, seen, before, after>>

Write(r) == Put(r, size[r]) /\ saved' = saved \cup {r}

\* The disk is full: less is written than should be, and the error is dropped.
WriteShort(r) == \E n \in 0 .. size[r] - 1 : Put(r, n) /\ saved' = saved

-----------------------------------------------------------------------------
\* The run is killed: by a signal, or by an ErrQuit of another goroutine.
Crash(r) ==
  /\ pc[r] \notin {"look", "done", "dead"}
  /\ Goto(r, "dead")
  /\ fd' = [fd EXCEPT ![r] = None]
  /\ size' = [size EXCEPT ![r] = 0]
  /\ UNCHANGED <<now, retried, disk, answer, notes>>

Tick ==
  /\ now < MaxTime
  /\ now' = now + 1
  /\ UNCHANGED <<disk, pc, retried, fd, size, answer, notes>>

Load(r) ==
  \/ LookFinds(r) \/ LookMisses(r) \/ Open(r)
  \/ ReadParses(r) \/ ReadFails(r) \/ Remove(r)

Update(r) ==
  \/ AskAnswered(r) \/ AskAgain(r) \/ AskFails(r)
  \/ Create(r) \/ CreateFails(r) \/ Write(r) \/ WriteShort(r)

Next ==
  \/ Tick
  \/ \E r \in Runs : Load(r) \/ Update(r) \/ Crash(r)

\* A run that is not killed goes on, and the API answers or fails in the end.
Spec == Init /\ [][Next]_vars /\ \A r \in Runs : WF_vars(Load(r) \/ Update(r))

-----------------------------------------------------------------------------
(***************************************************************************)
(* Properties                                                              *)
(***************************************************************************)

Loaded(r) == answer[r] \in Runs \ {r}

TypeOK ==
  /\ now \in 0 .. MaxTime
  /\ path \in Runs \cup {None}
  /\ content \in [Runs -> [by : Runs \cup {None}, size : Nat, whole : BOOLEAN]]
  /\ mtime \in [Runs -> 0 .. MaxTime]
  /\ pc \in [Runs -> {"look", "open", "read", "remove", "ask", "create", "write",
                      "done", "dead"}]
  /\ retried \subseteq Runs
  /\ fd \in [Runs -> Runs \cup {None}]
  /\ \A r \in Runs : pc[r] \in {"read", "write"} => fd[r] # None
  /\ size \in [Runs -> Nat]
  /\ answer \in [Runs -> Runs \cup {None, Err}]
  /\ looked \in [Runs -> 0 .. MaxTime] /\ seen \in [Runs -> 0 .. MaxTime]
  /\ saved \subseteq Runs
  /\ before \in [Runs -> SUBSET Runs] /\ after \in [Runs -> SUBSET Runs]

\* What a run loads was written no longer than Expiration before the run looked,
\* although the file it reads need not be the file it asked the age of: other runs
\* truncate, remove and make it anew in between (ReadDataFromFileCache).
NothingExpired ==
  \A r \in Runs : Loaded(r) => seen[r] + Expiration >= looked[r]

\* A run never works with an answer that a later one has replaced: if q asked the
\* API when r had already saved its answer, and q had saved its own before this run
\* looked, this run does not get r's.  An update, with --no-cache or after the file
\* expired, reaches every run that starts after it (README, File Cache).
UpdateIsSeen ==
  \A r \in Runs : Loaded(r) => \A q \in before[r] : answer[r] \notin after[q]

\* A run always gets an answer, or the error of the API, unless it is killed: a file
\* left empty, cut short or mixed by runs that were killed, failed or overlapped does
\* not stop the ones that find it (ReadJsonFromFileCache removes it).
EveryRunAnswered ==
  \A r \in Runs : <>(pc[r] = "dead" \/ (pc[r] = "done" /\ answer[r] # None))
=============================================================================
