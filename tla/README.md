# A TLA+ verification of triton-pssh

`triton-pssh` runs a command over SSH on every Triton instance that an expression
selects.  The modules in this directory model its concurrent core and the decisions
around it; TLC checks them on small instances and TLAPS proves the main results for
all instances.  Every definition is translated from the Go code under `src/`; file and
line are in `PROJECT.json` (`map`).

* [Inventory](#inventory): the components, their state, what is hard about them
* [Modules](#modules): what models what
* [Runs](#runs): what TLC checks, bounds, fairness
* [Proofs](#proofs): what TLAPS proves and how
* [Findings](#findings)
* [What is left out](#what-is-left-out) and the [plan](#plan)

## Inventory

| component | code | state | operations | talks to |
|---|---|---|---|---|
| CacheSession | `cache.go` | `db`, `waitingClients`, the channels `readChan`, `peekChan`, `jobQueue`, `writeChan`, the WaitGroup of the workers | `Get`, `Prepare`, `Peek`, `Close`; the server, the workers, `finalize` | the `Updater` it is given |
| image and network caches | `images.go`, `network.go` | a CacheSession and an expiration each | `Get`, `Prepare`, `Updater`, `IsPublic`, `HasPublic`, `DefaultUser` | CacheSession, file cache, cloud API |
| file cache | `cache.go:276-334`, `network.go:69-107`, `images.go:64-103`, `instances.go:19-61` | one file per image, network and page; no lock | load, save | the file system, other processes |
| ListInstances | `instances.go:19-108` | a file per page, 16-bit offset, a channel with one slot, a WaitGroup | a listing goroutine, a sender goroutine per instance | page files, cloud API, `Prepare` of both caches, `main` |
| SshSession | `ssh.go:77-163` | the unbuffered channel `input`, a fixed pool of workers | `Run`, `Close`, `worker` | `main`, doSSH |
| doSSH | `ssh.go:165-379, 546-571` | connections, session, files, a WaitGroup of copiers | connect (through a bastion), copy three streams, run, wait | the ssh library, the remote side |
| BuildJob and routing | `ssh.go:89-138`, `main.go:29-44, 190-219, 442-452`, `eval.go:100-162` | the fields of `Config` for bastion and user | `getBastion`, `BuildJob` | both caches |
| main | `main.go:401-555` | `matched`, `jobWg`, `resultChannel`, the temporary file | the loop over the instances, a collector per job, the closer, the printing loop, `ErrQuit` | everything above |
| option parsing | `getopts.go`, `main.go:159-360`, `loadopts.go`, `common.go` | `GetoptContext`, `Config` | `OptionsFromInitFile`, `Getopt`, `ParseOptions`, `SplitArgs` | `main` |
| expression evaluation | `eval.go` | none | `Evaluate`, `buildContext`, `ispublic`, `contains` | the govaluate library, both caches |
| SSH authentication | `sshauth.go` | a list of methods, last added first | `AddDefaults`, `AddPrivateKey`, `AddAgent`, `AddPassword` | key files, the agent, the ssh library |
| printed command lines | `ssh.go:381-545`, `quote.go` | none | `PrintConf`, `ExpandPlaceholder` | stdout |
| request signing, shell wrappers | `getsigner.go`, `etc/triton-ssh.sh` | none | `GetSigner` | key files, the agent; print mode |
| terminal, logging | `term.go`, `log/logger.go` | loggers | `ErrQuit` | the process |

What is hard, and what correctness means there:

* **CacheSession.**  Callers, the server and the workers interleave freely and every
  channel is unbuffered.  A key must be fetched once however many ask at once; the
  server must never block on a receiver that is not there, because then all callers
  hang; every waiting caller must be answered, with an error too; the shutdown must end
  although workers are blocked writing to the server that waits for them.
* **File cache.**  Any number of runs stat, read, remove, truncate and write one file
  with no lock, and may be killed between two steps.  A damaged file must not harm the
  runs that find it, expired data must not be used and a finished update must be seen.
* **ListInstances.**  The senders race for one slot; the offset wraps; the channel must
  be closed after the last send and only then.  The fleet changes while it is listed,
  and pages of different ages, from files and from the API, are put together.
* **SshSession and main.**  main blocks handing over a job while workers are busy,
  collectors pile up until main starts to read results, any goroutine may end the
  process.  No result may be lost, no channel closed too early, the run must end.
* **doSSH.**  Many early returns with different things to close, copiers that end only
  when the stream does and whose errors are only logged, a server that may refuse the
  command, a deadline that may strike anywhere, between the exit status and the end of the
  output too.
* **Options.**  The words of a file and of the command line become one list; every
  option has a default, some exclude each other, the order decides which authentication
  is tried.  What is accepted must leave the rest of the program with something sensible.
* **Routing.**  The same lookup is made twice, lookups fail, options interact.  An
  instance that is not known to be public must not be connected to directly.  What is
  printed must be what would be done.

`PROJECT.json` (`hazards`) lists each of these at its line with the properties that
cover it.

## Modules

```
FetchOnce    <-- refined by --  CacheSession   <- CacheSessionProofs
FanOut       <-- refined by --  Pssh = ListInstances + SshSession + main   <- PsshProofs
                                       |                  |
             ListInstancesProofs  ->  ListInstances   SshSession -- Finish is --> DoSsh  <- DoSshProofs
CommandLine  -- extended by --> Route  <- RouteProofs
CommandLineProofs  <-  GrammarProofs  <- RouteProofs
FileCache    <- FileCacheProofs        (one file; what an Updater and a page do with it)
```

A run of the program is described twice: Route follows the decisions, from the option
file to the way each job goes, with the instances one after the other; Pssh follows the
goroutines, with what each instance turns out to be chosen at the start.

**CacheSession** has one action per step of a goroutine.  A send on an unbuffered
channel and its receive are one action: `ReadHit`, `ReadJoin` and `ReadMiss` are the
server's three ways of receiving a `ReadRequest` (value cached; request under way;
neither), `PeekRead` its receipt from `peekChan`, `Write` its receipt from `writeChan`,
after which it is busy with a `Broadcast` to one receiver at a time and reads nothing
else.  `TakeJob`, `FetchSucceeds`, `FetchFails`, `ExitWorker` are a worker.  `phase[c]`
is the caller's side.  `Close`, `SeeClosed`, `WaitReturns`, `Drain` and `Finish` are
the shutdown; `ReadZero` is the request that has no key and no receiver, which the
server takes for a closed channel.  `SendOnClosed` is the panic of a goroutine that
still has something to send, `StartTooLate` that of the WaitGroup when a worker calls `Add`
just as `Wait` is being woken up.  The Updater is the environment: each call returns any
value or an error.  `called[k]` and `found[k]`, the number of calls for a key and what the
first successful one returned, are history, for the properties only.

**FetchOnce** is what the callers of a session may rely on: a table filled on demand,
each key resolved at most once.  `CacheSession` implements it (`ImplementsFetchOnce`)
with `asked`, `state` and `answer` mapped to the phases and replies of its callers and
`result` to `db`.

**ListInstances** has `Begin` (the program is started), `LoadPage` and `AskPage` (a page
is read from its file or asked for and saved, its senders start, the offset moves on
modulo `Wrap`), `ListFails`, `Send`, `CloseChan`, and the reader's `Receive`.  Around it
`Grow` and `Shrink` change the fleet, `Expire` takes a file away and `OtherRun` is
another run of the program that saves a page.  `fleets` is the history of the fleet and
`eras` the fleets of the pages that were read, for the properties only; `senders[i]`
counts the sender goroutines that hold instance i, so that an instance listed twice is
visible.  The API is taken to list instances in the order of their creation, a new one
last.

**SshSession** is the pool; `stage[j]` follows a job from `"new"` over `"offered"`
(main is blocked in `Run`), `"running"`, `"finished"` (a goroutine holds the result) and
`"held"` (the collector has it) to `"printed"`.

**Pssh** instantiates both and adds main: what each instance turns out to be is
`kind[i]`, chosen at the start; reading an instance and all that main does with it up
to its next blocking point is one action per outcome.  `exit` is the exit code;
`ErrQuit` sets it at once, whatever else is going on.  The cache lookups of main return
(that is what the session promises) and are not steps of their own here.

**FanOut** is what a run promises: each selected instance is started once, at most
`limit` of them, success means every started one was reported, and the run ends.
`Pssh` implements it (`ImplementsFanOut`).

**DoSsh** is one job: `open` is the set of connections and files that are open,
`copier[s]` the goroutine of stream s, `link` the TCP connection, which breaks at any
time, and at the deadline at the latest.  `remote` is what has arrived from the server, in
this order: the exit status, and the end of the channel, which may also come without one;
the end of each stream comes when it likes.  A copier of output ends with its stream
(`OutputEnds`) or is cut short (`OutputBreaks`), by a break or by an error writing its file,
which doSSH does not learn of.  `StartCommand` may be refused, and `CommandReturns` reports
success once status 0 has arrived, even when the connection broke after that.
`OutputComplete` says what this leaves: with the end of the channel, a success lacks output
only when a write to its file failed.

**FileCache** is one cache file and the runs of the program that need it.  An inode
bears the name of the run that created it, its content says whose answer it is and
whether it parses: an answer written over a longer one leaves a tail behind and does
not.  A run in `Retrying` begins anew when the API has failed (`AskAgain`), as the images
and networks do; the pages are of runs that do not.  `before`, `after`, `looked`, `seen` are
history, for the properties only.

**CommandLine** goes from the words of the option file and of the command line to
`Config`, the expression and the command: `ReadOptionFile`, `Getopt` as a function of
what is left of the words, an action per kind of option of `ParseOptions`, `SplitArgs`.
A word is a value that nobody looks into: constants say which options are in a cluster
like `-Bb`, what number a word stands for and what endpoint.  `log`, the options that
were accepted, is history.

**Route** extends it: the lookup of the bastion, then main's loop over a fixed list of
instances.  Networks are looked up one by one, for `has_public_net`, for an `ispublic` in
the filter and for the job.  Its caches follow FetchOnce: the first lookup of a key
settles its result for the rest of the run, an error as well as a value.  `Filters` says
what the words of a filter ask, and for which instances they have no value, which ends the
run.  BuildJob gives a job, or none because the instance cannot be reached (`"none"`) or
because the input file could not be opened once more (`NotOpened`), which can happen to any
instance; main warns and goes on.  In print
mode the first job that can be built is printed (`PrintConf`) and the process ends.

A definition whose comment begins with **Variant:** is not part of any specification.
It is a definition as a plausible mistake would have it; put in the place of the one
after it, it makes a property fail, which shows that the property says something about
the code.

## Runs

| run | question | bounds |
|---|---|---|
| `cache_serve` | production setting (errors cached, session never closed): one fetch per key, nobody given anything but the value of its first success, all answered, implements FetchOnce with its liveness | 2 keys, 2 values, 3 Gets, 1 Prepare, 1 Peek, 2 workers, 1 retry |
| `cache_close` | errors not cached, session closed or finalized at any moment: the table is never rewritten, workers are gone before the server, the shutdown completes however it began | 2 values, 2 Gets, 2 Prepares (one of the empty key), 2 workers |
| `cache_close_panics` | *violated*: Close lets nothing panic | 1 Get, 1 Prepare |
| `cache_error_forgotten` | *violated*: every Get returns, when errors are not cached | 2 Gets |
| `list_instances` | pages of any age of a changing fleet: what is listed once, what may be missed, what is out of date; none missed by a wrapped offset; the listing ends | fleets of 0, 1, 3 and 6 at first, 2 changes, pages of 3, offsets below 5 |
| `pssh` | a whole run: channels closed last, none left out, limit held, implements FanOut | fleets of 0 and 3, pages of 2, 2 workers, limits 0, 1, 3 |
| `pssh_stdin` | *violated*: commands get their standard input | as `pssh` |
| `do_ssh` | one job on all paths and with all options: what it closes, what output a success may lack, that it ends | none needed: the state is finite |
| `do_ssh_stderr` | *violated*: `-e` saves standard error | the same |
| `file_cache` | racing runs: nothing expired, no replaced answer is used, a damaged file stops nobody | 3 runs, one of which asks again, 2 sizes, 1 tick, expiration 0 |
| `route` | what is accepted, which authentication is tried, the way and the users of every job, the printed line | 3 instances sharing 2 networks, 2 images; the command lines below |
| `auth_order` | *violated*: the default keys are tried in order | as `route` |

**Why the bounds are enough.**  *Sessions*: two Gets and a Prepare on one key make all
pairs of requests meet before, during and after its fetch and its broadcast; a Get of
the second key and a second worker let two fetches overlap and writes wait for a
broadcast; one retry is the smallest number that separates a failed call from a failed
fetch, and two values the least that show one in the place of another.  *Listing*: `MaxLimit` 3 and `Wrap` 5 stand for 1000 and 65536.  As in the code
the wrapped offset is not a multiple of the page size: fleets below 6 (66000 in the
code) fit; the fleet of 6 wraps and still ends, as fleets of 66000 to 66527 do, because
a page after the wrap is short; larger ones never end and their senders have no bound,
so they stay out.  That fleet neither changes nor has files (`Matters`).  `MaxIds` 6
instances and `MaxChanges` 2 take a fleet from 3, one full page, to 4 and 5 and back,
which moves instances from one page to the other; two changes are what it takes
for a file older than the run and a change during the run.  Once the last page was read
the account matters no more and stands still.  *Command lines*: in one family
(`Routings`) an option file, the options for users, ports and the bastion, filters,
names, limits and modes are combined; in the other (`Settings`) any two of twenty-two
options with their values at the limits follow each of six option files, and the methods
of authentication meet all sets of three of the default keys.  Two options are the least with which one
can override, follow or exclude another.  The second family has a filter that does not parse,
so that its runs end at the first instance and the two families do not multiply.
*Runs*: three instances and two workers are the least with which
main is blocked handing over a job while one result is held and another unfinished;
limit 1 stops in the middle, 0 before anything, 3 never.  *Files*: the property about
updates needs an old writer, a new writer and a reader, and a third party that damages
or removes the file is one of them in another role; two sizes give all the ways two
writes can overlap; a run that may ask again meets others that may not; with one tick a file can expire under a reader, or between the look
of one run and that of another.  No run uses symmetry.

**Fairness.**  Weak fairness of a goroutine's steps: the Go scheduler runs what can
run, and a goroutine blocked on a channel is fair only while its partner is there.
Where a `select` chooses, nothing is assumed of the choice.  Of the environment: the
API answers or fails in the end (`ListFairness`, `FileCache`), an Updater returns;
nothing at all about a remote command, which may run for ever (`DoSsh`): `JobEnds`
needs the deadline, and only then a connection is assumed not to stay up for ever.
`Pssh` assumes what `JobEnds` gives: doSSH returns.  It also takes for granted that standard
input comes to its end when it is copied, and that the cache lookups of main return: that
is what `ImplementsFetchOnce` shows of a session that is not finalized, for Updaters that
return.  Without either the program waits.  Crashes, failures, calls of Get
and the reader's decision to look are never fair.

**Deadlock** is checked except where the system really may stop: a closed session
leaves late Gets waiting for a server that is gone (`cache_close`), a forgotten error
leaves a Get waiting, which is the finding itself (`cache_error_forgotten`), and runs
that are all over (`file_cache`, `route`, `auth_order`).  In the others the final
states have an explicit stuttering step (`Rest`, `Over`, `Dead`), so that TLC finds any
other standstill.

## Proofs

All theorems are for arbitrary values of the constants: callers, keys, values, workers and
runs, fleets, page sizes and widths of the offset, command lines.  The assumptions are
`CacheAssumption`, `FileCacheAssumption`, `ListAssumption`, `CommandLineAssumption` and
`RouteAssumption`, which say that sentinels differ from the data, that numbers are numbers
and options are words, and that a page is smaller than what the offset can count; Pssh has
`PsshAssumption`, that its fleets fit the offset, as in the run.  Every safety invariant
and action property of the runs is a theorem.

**CacheSessionProofs.**  The invariants of the runs are not inductive: that a broadcast
finds its receivers blocked depends on who was listed when, and on no key being fetched
twice.  The inductive invariant `IndInv` is the conjunction of

* `TypeOK`;
* `FlightInv`: at most one request of a key is with the workers and none once it is
  cached (`SingleFlight`); only Gets of a key are listed under it, and a waiting Get is
  listed (`Lists`); while a request is with the workers nobody listed has been answered
  (`Fresh`); a broadcast serves listed receivers with what was stored (`Casting`), all
  of them blocked (`BroadcastReachesWaiters`);
* `Counted`: tries counted per request, from which `UpdaterCalls`;
* `Kept`: all that was given out of a key, written, broadcast or returned, is the value of
  its first successful call, and an error only after all tries (`SuccessIsServed`); it is
  inductive because nothing was given out of a key that is still `Open`: not asked for,
  queued, or with the Updater at work;
* `Served`: with `CacheOnError`, a waiting Get has a request under way or is in the
  broadcast (`NoOrphanWaiter`);
* `Ended`: once the server has ended no worker can write (`WriteChanSafe`).

Each part has a lemma for the initial states and one for the steps, with a case per
action.  `Invariance` puts them together; `TypeCorrect`, `OneRequestPerKey`,
`UpdaterBounded`, `BroadcastNeverBlocks`, `NoneForgotten` and `CloseIsSafe` are its
consequences, and so is `SuccessServed`; `CacheStability` is the action property
`CacheIsStable`.  `Refinement`
shows that with `CacheOnError` every behaviour of the session is one of
`FetchOnce!SafeSpec`: `Write` is `Resolve` (by `SingleFlight` the key was not resolved
before), `ReadHit` and each `Broadcast` of a Get are `Return` (by `Casting` the value
sent is the one stored), calls are `Call` and `Announce`, all else stutters.

**FileCacheProofs.**  `NothingExpired` and `UpdateIsSeen` speak of what a run loaded;
to be inductive they need what a run is about to load.  `Savers`: a run that saved is
over and writes no more.  `Replacing`: from the moment q truncates the file, the file
name never leads to an answer that q's replaces, and neither does the descriptor of a
run that looked after q was through.  It is preserved because a name changes only to
nothing or to an empty inode, and content only to that of a run still writing, which
cannot be among those q's answer replaces.  `Ages`: the file a name leads to is at
least as young as the one os.Stat saw.

**ListInstancesProofs.**  `ListedOnce` counts senders, buffer and reader together, and
compares them with the part of a fleet that was read.  It needs to know what a
page is: `FilesOK` says that a saved page is what one of the former fleets had at the
offset of its file, `FleetsOK` that no fleet has an instance twice (a new one has a name
nobody had).  `ReadingOK` is the loop invariant: as long as all pages are of one fleet,
the offset is a multiple of the page size within the fleet, and what was listed is what
stands before it.  A step from page to page then adds disjoint parts (`PageAdds`); that
the next offset does not wrap is the arithmetic of `OffsetFits`: a multiple of the page
size below `TooMany` is below `Wrap`.  Senders and the reader only move an instance on
(`QuietStep`), the account only adds fleets to the history (`FleetStep`).  From these follow
`ListTypeCorrect`, `NoCacheMeansFresh` and `ListedExactlyOnce`.

What may be missed needs two more parts.  `CoveringOK` gives up the count: with the pages
all of one fleet, and however far the offset has wrapped, everything below some h has been
listed and the next page begins at h or before, so that a page that is not full reaches
the end of the fleet (`WrappingMissesNothing`).  `PrefixOK` and `GatheringOK` give up the one
fleet: while nothing is removed each fleet begins with those before it, and what was
listed is the first h of the present fleet and perhaps some more of it that were created
later; so pages of any age fit together (`GrowthLosesNothing`).

**PsshProofs.**  The listing inside Pssh is a ListInstances without files and changes, so
its invariant is taken over as it stands: `LP` instantiates ListInstancesProofs, and
`ListMoves` shows that the goroutines of Pssh make its steps.  `ListFacts` is what main gets
out of it: an instance comes at most once, and when the channel is closed all have come.
`PsshInv` adds what main does with them: `CountOK` (`matched` is the number of selected
instances that were read), `UsedOK` (a job is of a selected instance that is below the
limit, and while the limit is not exceeded every such instance that was read has a job),
`WorkersOK` (a worker's job is running, and it is nobody else's) and `PhasesOK` (who is closed
when).  `ChannelsAreClosedLast`, `NobodyIsLeftOut` and `LimitIsKept` follow, and `RunIsFanOut`:
every step of the program is one of `FanOut` or none of its business.  A `HandOver` is
`Start`, the printing of a result is `Report`, an exit with 0 is `Succeed` because nobody is
left between the two, any other exit is `GiveUp`.

**DoSshProofs.**  A successful job has saved its output because it waits for its copiers,
and that is a matter of one counter.  `CounterOK` says what the counter is at each point: the
copiers of this job that have not called `Done`, started or not.  So it is zero only when
all are done, and a job that returns early leaves copiers that were never started counted,
which nobody waits for.  `CopiersOK` says which were started at each point, `OpenOK` what is open where, and `SavedOK`
that a copier of standard output that has ended has saved everything (`StdoutSaved`), as long
as the connection is up or was until the channel was closed, and unless a write to its file
failed.  A break after the exit status is the other way a success can lack output; the
theorem says nothing of it, because the code does not tell it from a success.  `JobTypeCorrect`, `SuccessIsComplete` and the action property
`EveryReturnReleases` follow.

**CommandLineProofs and GrammarProofs.**  These hold no theorem about a run, but what
RouteProofs needs of the set-up.  `LineInv` relates `Config` to the history of accepted
options: user, port, bastion and the methods that will be tried are those of the last
option of their kind (`AskedOK`, `BastionOK`, `MethodsOK`), the rest are the checks that lie behind
each phase (`CheckedOK`, `SplitOK`, `NumbersOK`, `HostsOK`).  The lemmas below it say that the
last element of a kind in an extended sequence is the new one or the old one
(`LastInAppended`), that a method put in front is tried and keeps the tried ones of other
types (`TriedInFront`), and that minima and maxima exist (`MinIsIn`, `MaxIsIn`, from the
well-foundedness of the numbers).  GrammarProofs is about `EndOf`, which is recursive:
`FromTheLast` is induction from the last place to the first, for sets; with it `EndsExist`
shows that the recursion defines a function, `EndsEquation` its values, and `OperandsJoin`
that options alone in front of a line leave its operands.  `PlaceInv`, which `PlaceStep`
preserves, says that Getopt always stands where the options go on by this grammar.

**RouteProofs.**  The filter and the job each search the networks of an instance, with
other lookups in between.  Since a result in the cache never changes (`ResultsStay`), an
instance whose search is over is `Known` (one of its networks is public) or `Hidden` (all
were looked up and none is), for good and not both (`VerdictsStay`, `OneVerdict`).  The
inductive invariant `RouteInv` has `Types`, `NoneYet` (no job before the bastion was
looked up, so that the bastion of a job is that of the configuration), `Searching` (what
a search under way has seen so far), `Evaluated` (`listed` is the verdict) and `Fits` (so
is the job).  From it follow `DirectMeansPublic`, `FilterSeesNetworks`, `OneRoutePerVerdict`
and `EmptyBastionIsForced`.

`RunInv` joins `RouteInv` with `LineInv` to speak of a whole run: `FoundOK` (the bastion that was
found is the last one given), `Made` (a job is made of `Config` and the image of its
instance), `PrintsOK` (with a command line to print there is but one instance that can be
reached, the current one), `NamedOK` (every named instance the loop has passed was given to
BuildJob; the loop ends early only above the limit) and `CountsOK`, without which `NamedOK` is not
inductive.  After the set-up `Config` changes once, when the bastion is looked up, so that
everything said of it stays true (`LineKept`, `LoopKeeps`).  It gives `RouteTypeCorrect`,
`AcceptedLinesFit`, `LastMethodIsTried`, `BastionIsAsAsked`, `NamedInstancesAreTaken`,
`FirstReachableIsPrinted` and, with `PlaceInv`, `OptionFileIsApart`.

**Only model-checked:** liveness, which is beyond the prover, since it needs fairness:
that every Get is answered and a shutdown ends (`CloseCompletes`, and the liveness in
`ImplementsFetchOnce`), that a listing, a job and a run end (`ListingEnds`, `JobEnds`, the
liveness in `ImplementsFanOut`), that a damaged file stops nobody (`EveryRunAnswered`).  The
properties the code does not have (the runs marked *violated*) are left to TLC as well.

## Findings

1. `Close` of a session whose Prepares are still being sent makes a goroutine panic
   (`cache_close_panics`; `cache.go:79`, `cache_test.go:121`).  The program itself never
   closes a session.
2. Without `CacheOnError` a Get after a failed fetch waits for ever
   (`cache_error_forgotten`; `cache.go:141`).  Both caches of the program set it.
3. Standard input that cannot be saved is dropped silently (`pssh_stdin`;
   `main.go:467`, `README.md:77`).
4. `-e ERRDIR` never gets any data: the command is always run with `exec 2>&1`
   (`do_ssh_stderr`; `ssh.go:366`, `README.md:75`).

5. Of the default keys only one is ever tried: `AddDefaults` makes a method of each, and
   the ssh library uses the first method of a type only (`auth_order`; `sshauth.go:45`,
   `README.md:206`).

Met while reading, with no run because nothing but the text is at odds: `--url` is in the
table of options and in the help text, but `ParseOptions` does not know it (`main.go:279`);
`README.md:90` calls the deadline `-d`, the option is `-t` (`main.go:69`).

Behaviour no document speaks of, recorded under `hazards`: two overlapping runs may
leave the older answer in a cache file; an instance that is removed while pages of
different ages are put together may leave others missing or listed twice
(`GrowthIsHarmless` is what remains); a job reports success although its output was cut
short, when a write to its file fails or the connection breaks after the exit status
(`OutputComplete` is what remains); a Prepare of the empty key ends a session in use
(`CloseCompletes` says that it ends in order, later callers wait for ever); a named instance is
passed over with a warning when the input file cannot be opened for it, as when the
connections and output files that nobody closes use up the descriptors; the limit counts
instances for which there is no job; `--force-bastion` without a bastion, or with a
name that does not exist, connects to port 22 of the local machine, while print mode
prints a direct connection; print mode prints nothing and succeeds when instances match
and none can be reached; the temporary file stays behind when the run ends through
`os.Exit`; the bastion's connection of a job is closed by nobody; accounts of 66528
instances and more are listed for ever.

## What is left out

* The inside of words: which characters make a number, a path, an endpoint or a quoted
  argument, and the wording of printed command lines and results.  An expression is what
  its words ask of an instance; the fields of the context other than `has_public_net`
  and the function `contains` only copy and compare.
* What bytes are made of: sizes and parsing of a cache file are kept, the rest is
  whose answer it is.  A read and a write of a file are one system call each, as they
  are for files of this size on a local file system; a prefix of the JSON text of a
  record or a list, or one text followed by the tail of another, never parses.
* The cloud API and the remote side, which may do anything; the ssh library, which is
  taken to deliver what is written or break, and to use the first method of each type.
* Key files, the agent, request signing, the terminal and the logs; the shell scripts
  of `etc/`, which run the program in print mode and evaluate its output.
* The counter `nworkers`, changed by several workers without a lock and read by a test.
* Functions that nothing calls: `images_main`, `network_main`, `getopts_main`,
  `PasswordAuth`, `AgentAuth`, `PublicKeyAuth`, and the commented-out end of `ssh.go`.

## Plan

In the order of importance; the first three blocks are done.

1. *Done*: CacheSession with FetchOnce and its proofs; ListInstances, SshSession and
   Pssh with FanOut; DoSsh; FileCache with its proofs; Route.
2. *Done*: CommandLine before Route, with authentication and print mode; a fleet that
   changes and pages of different ages in ListInstances; proofs for Route, for the
   listing.
3. *Done*: proofs of every safety invariant and action property: `ListInstances` with a
   wrapped offset and a growing fleet, Pssh and its refinement of FanOut, DoSsh, the
   command line and Route with it; DoSsh with the errors of copiers and of the server, jobs
   without their input in Route, and the result of a fetch in CacheSession.
4. Prove, for what Pssh takes for granted of doSSH, that a job of DoSsh looked at from
   outside is one of SshSession: connected and running until it returns, then finished.
5. Model: ListInstances' Prepares and main's Gets on one CacheSession, in place of the
   cache lookups that return at once in Pssh.
