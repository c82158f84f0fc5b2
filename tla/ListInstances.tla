---------------------------- MODULE ListInstances ----------------------------
(***************************************************************************)
(* ListInstances of src/instances.go: a goroutine that reads the instances *)
(* of the account page by page and starts a sender goroutine for each of   *)
(* them; the senders meet the reader on a channel with a buffer of one.    *)
(* The reader is main, which may stop reading at any time; here it is an   *)
(* action of its own, in module Pssh it is main.                           *)
(*                                                                         *)
(* Every page comes from its own file or from the API, which saves it, and *)
(* other runs of the program do the same meanwhile.  The fleet changes:    *)
(* instances are listed in the order in which they were created, a new one *)
(* comes last.  A page and its file are read and written in one step; what *)
(* may happen in between is in FileCache.                                  *)
(*                                                                         *)
(* The page offset is an unsigned integer that wraps at Wrap (65536 in the *)
(* code, with pages of 1000).                                              *)
(***************************************************************************)
EXTENDS Naturals, FiniteSets, Sequences

CONSTANTS
  MaxLimit,    \* MAX_LIMIT: the instances of a full page
  Wrap,        \* 2^16, the first offset an uint16 cannot hold
  Totals,      \* the numbers of instances an account may have at first
  MaxIds,      \* bound: how many instances there ever are
  MaxChanges,  \* bound: how often the fleet changes
  None         \* the empty channel buffer, and a file that is not there

ASSUME ListAssumption ==
  /\ MaxLimit \in Nat \ {0} /\ Wrap \in Nat /\ MaxLimit < Wrap
  /\ MaxIds \in Nat /\ Totals \subseteq 0 .. MaxIds
  /\ MaxChanges \in Nat
  /\ None \notin Nat

VARIABLES
  fleets,   \* the fleets the account has had, each one the instances in order
  file,     \* file[o]: the saved page at offset o and the fleet it is of, or None
  noCache,  \* Config.NoCache
  began,    \* the fleet there was when the program was started
  eras,     \* the fleets of the pages that were read
  offset,   \* the offset of the next page
  lister,   \* the listing goroutine: "idle", "listing", "waiting", "closed" or "failed"
  senders,  \* senders[i]: how many goroutines are blocked sending instance i
  buf,      \* the channel's buffer: an instance or None
  got       \* got[i]: how often the reader has received instance i

cloudVars == <<fleets, file>>
listVars == <<cloudVars, noCache, began, eras, offset, lister, senders, buf, got>>

Now == Len(fleets)
Fleet == fleets[Now]
Members(e) == {fleets[e][n] : n \in DOMAIN fleets[e]}

\* The instances of all the fleets, in the order in which they are created.
Ids == 0 .. MaxIds - 1

Init ==
  /\ \E n \in Totals : fleets = << [k \in 1 .. n |-> k - 1] >>
  /\ file = [o \in 0 .. Wrap - 1 |-> None]
  /\ noCache \in BOOLEAN
  /\ began = 1
  /\ eras = {}
  /\ offset = 0
  /\ lister = "idle"
  /\ senders = [i \in Ids |-> 0]
  /\ buf = None
  /\ got = [i \in Ids |-> 0]

-----------------------------------------------------------------------------
(***************************************************************************)
(* The account, and other runs of the program                              *)
(***************************************************************************)

\* The page at offset o: at most MaxLimit instances, none beyond the last.
Page(o) == SubSeq(Fleet, o + 1, IF o + MaxLimit < Len(Fleet) THEN o + MaxLimit ELSE Len(Fleet))

\* The answer of the API, as it is saved.
Answer(o) == [page |-> Page(o), era |-> Now]

Full(p) == Len(p) = MaxLimit

\* The first multiple of MaxLimit that an offset cannot hold: 66000 in the code.
TooMany == ((Wrap + MaxLimit - 1) \div MaxLimit) * MaxLimit

\* What happens after the last page was read has no influence any more.  Bound: only
\* an account whose listing does not wrap changes or has files.
Matters ==
  /\ lister \in {"idle", "listing"}
  /\ Len(Fleet) < TooMany
  /\ UNCHANGED <<noCache, began, eras, offset, lister, senders, buf, got>>

\* An instance is created, with a name nobody had.
Grow ==
  /\ Matters
  /\ Now <= MaxChanges
  /\ \E i \in Ids :
       /\ {j \in Ids : j < i} = UNION {Members(e) : e \in 1 .. Now}
       /\ fleets' = Append(fleets, Append(Fleet, i))
  /\ UNCHANGED file

Shrink ==
  /\ Matters
  /\ Now <= MaxChanges
  /\ \E k \in DOMAIN Fleet :
       fleets' = Append(fleets, SubSeq(Fleet, 1, k - 1) \o SubSeq(Fleet, k + 1, Len(Fleet)))
  /\ UNCHANGED file

\* A file gets too old, or is removed.
Expire ==
  /\ Matters
  /\ \E o \in DOMAIN file : file[o] # None /\ file' = [file EXCEPT ![o] = None]
  /\ UNCHANGED fleets

\* Another run has read full pages so far and asks for the one at o.
OtherRun ==
  /\ Matters
  /\ \E n \in 0 .. Wrap :
       LET o == n * MaxLimit IN
       /\ o < Wrap
       /\ o > 0 => Full(Page(o - MaxLimit)) \/
                   (file[o - MaxLimit] # None /\ Full(file[o - MaxLimit].page))
       /\ file' = [file EXCEPT ![o] = Answer(o)]
  /\ UNCHANGED fleets

-----------------------------------------------------------------------------
(***************************************************************************)
(* The listing goroutine and the senders                                   *)
(***************************************************************************)

\* The goroutines do not change the fleet, the files or the options.
Outside == fleets' = fleets /\ file' = file /\ noCache' = noCache /\ began' = began

\* The program is started.
Begin ==
  /\ lister = "idle"
  /\ lister' = "listing"
  /\ began' = Now
  /\ fleets' = fleets /\ file' = file /\ noCache' = noCache
  /\ UNCHANGED <<eras, offset, senders, buf, got>>

\* A turn of the loop: a sender for each instance of the answer, and the offset next,
\* unless the page was the last.
Turn(answer, last, next) ==
  /\ lister = "listing"
  /\ senders' = [i \in Ids |-> senders[i] + Cardinality({n \in DOMAIN answer.page : answer.page[n] = i})]
  /\ eras' = eras \cup {answer.era}
  /\ IF last THEN lister' = "waiting" /\ UNCHANGED offset
             ELSE offset' = next /\ UNCHANGED lister
  /\ fleets' = fleets /\ noCache' = noCache /\ began' = began
  /\ UNCHANGED <<buf, got>>

\* Variant: a full page counts as the last one.
ProcessOneOnly(answer) ==
  Turn(answer, Len(answer.page) <= MaxLimit, (offset + MaxLimit) % Wrap)

\* Variant: the next page starts at the last instance of this one.
ProcessOverlap(answer) ==
  Turn(answer, ~Full(answer.page), (offset + MaxLimit - 1) % Wrap)

\* Variant: an offset of unlimited size.
ProcessUnbounded(answer) ==
  Turn(answer, ~Full(answer.page), offset + MaxLimit)

\* A short page is the last.
Process(answer) ==
  Turn(answer, ~Full(answer.page), (offset + MaxLimit) % Wrap)

\* Variant: the files are used whatever the options say.
FromFileAlways == file[offset] # None

\* The page is loaded from its file.
FromFile == ~noCache /\ file[offset] # None

LoadPage ==
  /\ FromFile
  /\ Process(file[offset])
  /\ file' = file

\* Variant: the page is saved under the offset of the next one.
AskPageMisfiled ==
  /\ ~FromFile
  /\ Process(Answer(offset))
  /\ file' = file \/ file' = [file EXCEPT ![(offset + MaxLimit) % Wrap] = Answer(offset)]

\* The page is asked for and saved; that it cannot be saved is ignored.
AskPage ==
  /\ ~FromFile
  /\ Process(Answer(offset))
  /\ file' = file \/ file' = [file EXCEPT ![offset] = Answer(offset)]

\* The API fails while a page is read: ErrQuit ends the process.
ListFails ==
  /\ lister = "listing" /\ ~FromFile
  /\ lister' = "failed"
  /\ Outside /\ UNCHANGED <<eras, offset, senders, buf, got>>

\* A sender puts its instance into the buffer and ends.
Send(i) ==
  /\ i \in Ids
  /\ senders[i] > 0
  /\ buf = None
  /\ buf' = i
  /\ senders' = [senders EXCEPT ![i] = @ - 1]
  /\ Outside /\ UNCHANGED <<eras, offset, lister, got>>

\* Variant: the channel is left open.
CloseChanForgotten ==
  /\ lister = "waiting"
  /\ \A i \in Ids : senders[i] = 0
  /\ UNCHANGED listVars

\* wg.Wait returns when every sender is done, and the channel is closed.
CloseChan ==
  /\ lister = "waiting"
  /\ \A i \in Ids : senders[i] = 0
  /\ lister' = "closed"
  /\ Outside /\ UNCHANGED <<eras, offset, senders, buf, got>>

\* The reader receives an instance; it may do so from the closed channel too.
Receive(i) ==
  /\ buf = i
  /\ buf' = None
  /\ got' = [got EXCEPT ![i] = @ + 1]
  /\ Outside /\ UNCHANGED <<eras, offset, lister, senders>>

\* The channel is closed and empty: the reader's range loop is over.
Exhausted == lister = "closed" /\ buf = None

\* What the goroutines of ListInstances do.
ListStep == Begin \/ LoadPage \/ AskPage \/ ListFails \/ CloseChan \/ \E i \in Ids : Send(i)

\* Nothing is left to do.
Over == (Exhausted \/ lister = "failed") /\ UNCHANGED listVars

Around == Grow \/ Shrink \/ Expire \/ OtherRun

Next == ListStep \/ (\E i \in Ids : Receive(i)) \/ Around \/ Over

\* The goroutines run, and a reader that has not stopped goes on reading.
ListFairness ==
  /\ WF_listVars(lister # "failed" /\ ListStep)
  /\ WF_listVars(lister # "failed" /\ \E i \in Ids : Receive(i))

Spec == Init /\ [][Next]_listVars /\ ListFairness

-----------------------------------------------------------------------------
(***************************************************************************)
(* Properties                                                              *)
(***************************************************************************)

\* The fleets are small enough for the offset of their last page.
Fits == \A e \in DOMAIN fleets : Len(fleets[e]) < TooMany

\* Every variable has its type; the offset never leaves its unsigned width.
TypeOK ==
  /\ \A e \in DOMAIN fleets : fleets[e] \in Seq(Ids)
  /\ \A o \in DOMAIN file : file[o] # None => file[o].era \in 1 .. Now /\ Len(file[o].page) <= MaxLimit
  /\ noCache \in BOOLEAN
  /\ began \in 1 .. Now
  /\ eras \subseteq 1 .. Now
  /\ offset \in 0 .. Wrap - 1
  /\ lister \in {"idle", "listing", "waiting", "closed", "failed"}
  /\ senders \in [Ids -> Nat]
  /\ buf \in Ids \cup {None}
  /\ got \in [Ids -> Nat]

\* How many times instance i was or will be given to the reader.
Listed(i) == senders[i] + got[i] + (IF buf = i THEN 1 ELSE 0)

\* The pages of fleet e that were read, as long as all are of that fleet.
Read(e) ==
  {fleets[e][n] : n \in {n \in DOMAIN fleets[e] : n <= offset \/ lister \in {"waiting", "closed"}}}

\* However its senders race, an instance of a fleet that fits is offered exactly
\* once if its page was read and not at all otherwise, as long as the pages are all of
\* one fleet, be it a former one (instances.go:71-103).
ListedOnce ==
  Fits => \A e \in DOMAIN fleets :
            eras = {e} => \A i \in Ids : Listed(i) = IF i \in Read(e) THEN 1 ELSE 0

\* When the range loop of the reader ends it has received every instance of the
\* fleet its pages are of, even when the offset wrapped on the way (instances.go:99-105).
NothingMissed ==
  Exhausted => \A e \in DOMAIN fleets : eras = {e} => \A i \in Members(e) : got[i] > 0

\* Pages of different ages, from files and from the API, fit together as long as no
\* instance was removed: none is listed twice, and those that were there before the
\* first page was read or saved are all listed (instances.go:38-61, 71-103).
GrowthIsHarmless ==
  Fits /\ (\A e \in 2 .. Now : Members(e - 1) \subseteq Members(e)) =>
    /\ \A i \in Ids : Listed(i) <= 1
    /\ Exhausted => \A i \in Members(1) : got[i] = 1

\* "If you do not want to use cached information, add --no-cache. This is epecially
\* helpful, if you remove an instance and create another one" (README.md:219): what is
\* listed then was there when the program was started or later.
NoCacheIsFresh ==
  noCache => \A i \in Ids : Listed(i) > 0 => \E e \in began .. Now : i \in Members(e)

\* The listing of fleets that fit ends: the reader's loop does not hang on a
\* channel that is never closed, whatever order the senders run in and whatever
\* becomes of the fleet meanwhile.
ListingEnds == []Fits => <>(Exhausted \/ lister = "failed")
=============================================================================
