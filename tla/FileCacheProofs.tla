--------------------------- MODULE FileCacheProofs ---------------------------
(***************************************************************************)
(* Theorems about FileCache, for every set of runs, every expiration and   *)
(* every bound of the clock.                                               *)
(***************************************************************************)
EXTENDS FileCache, TLAPS

LEMMA TypeInit == Init => TypeOK
BY FileCacheAssumption DEF Init, TypeOK, Empty

LEMMA TypeStep == TypeOK /\ [Next]_vars => TypeOK'
<1> SUFFICES ASSUME TypeOK, [Next]_vars PROVE TypeOK'
  OBVIOUS
<1> USE FileCacheAssumption DEF TypeOK, Goto, disk, notes
<1>1. CASE Tick
  BY <1>1 DEF Tick
<1>2. ASSUME NEW r \in Runs, LookFinds(r) \/ LookMisses(r) PROVE TypeOK'
  <2>1. /\ pc' \in {[pc EXCEPT ![r] = "open"], [pc EXCEPT ![r] = "ask"]}
        /\ looked' \in {looked, [looked EXCEPT ![r] = now]}
        /\ before' \in {before, [before EXCEPT ![r] = saved]}
        /\ UNCHANGED fd
    BY <1>2 DEF LookFinds, LookMisses, Look
  <2>2. before' \in [Runs -> SUBSET Runs]
    BY <2>1
  <2>3. /\ looked' \in [Runs -> 0 .. MaxTime]
        /\ pc' \in [Runs -> {"look", "open", "read", "remove", "ask", "create", "write",
                            "done", "dead"}]
    <3>1. looked' \in [Runs -> 0 .. MaxTime]
      BY <2>1
    <3>2. CASE pc' = [pc EXCEPT ![r] = "open"]
      BY <3>1, <3>2
    <3>3. CASE pc' = [pc EXCEPT ![r] = "ask"]
      BY <3>1, <3>3
    <3>. QED
      BY <2>1, <3>2, <3>3
  <2>4. \A q \in Runs : pc'[q] \in {"read", "write"} => fd'[q] # None
    BY <2>1
  <2>5. UNCHANGED <<now, retried, path, content, mtime, fd, size, answer, seen, saved, after>>
    BY <1>2 DEF LookFinds, LookMisses, Look
  <2>. QED
    BY <2>2, <2>3, <2>4, <2>5
<1>3. ASSUME NEW r \in Runs, Open(r) PROVE TypeOK'
  <2>1. CASE path # None /\ fd' = [fd EXCEPT ![r] = path] /\ pc' = [pc EXCEPT ![r] = "read"]
    BY <1>3, <2>1 DEF Open
  <2>2. CASE fd' = fd /\ pc' = [pc EXCEPT ![r] = "remove"]
    BY <1>3, <2>2 DEF Open
  <2>. QED
    BY <1>3, <2>1, <2>2 DEF Open
<1>4. ASSUME NEW r \in Runs, ReadParses(r) PROVE TypeOK'
  BY <1>4 DEF ReadParses
<1>5. ASSUME NEW r \in Runs, ReadFails(r) PROVE TypeOK'
  BY <1>5 DEF ReadFails
<1>6. ASSUME NEW r \in Runs, Remove(r) PROVE TypeOK'
  BY <1>6 DEF Remove
<1>7. ASSUME NEW r \in Runs, AskAnswered(r) PROVE TypeOK'
  BY <1>7 DEF AskAnswered
<1>8. ASSUME NEW r \in Runs, AskAgain(r) \/ AskFails(r) PROVE TypeOK'
  BY <1>8 DEF AskAgain, AskFails
<1>9. ASSUME NEW r \in Runs, Create(r) PROVE TypeOK'
  BY <1>9 DEF Create, CreateIn, Empty
<1>10. ASSUME NEW r \in Runs, CreateFails(r) PROVE TypeOK'
  BY <1>10 DEF CreateFails
<1>11. ASSUME NEW r \in Runs, NEW n \in Nat, Put(r, n), saved' \in {saved, saved \cup {r}}
       PROVE  TypeOK'
  BY <1>11 DEF Put
<1>12. ASSUME NEW r \in Runs, Crash(r) PROVE TypeOK'
  BY <1>12 DEF Crash
<1>13. CASE UNCHANGED vars
  BY <1>13 DEF vars
<1>14. ASSUME NEW r \in Runs, Write(r) PROVE TypeOK'
  BY <1>11, <1>14 DEF Write
<1>15. ASSUME NEW r \in Runs, WriteShort(r) PROVE TypeOK'
  BY <1>11, <1>15 DEF WriteShort
<1>. QED
  BY <1>1, <1>2, <1>3, <1>4, <1>5, <1>6, <1>7, <1>8, <1>9, <1>10, <1>12, <1>13, <1>14,
     <1>15 DEF Next, Load, Update

-----------------------------------------------------------------------------
(***************************************************************************)
(* The inductive invariant                                                 *)
(***************************************************************************)

\* A run that has saved its answer is over: it writes no more.
Savers ==
  /\ \A r \in saved : pc[r] = "done"
  /\ \A r \in Runs : after[r] \subseteq saved /\ before[r] \subseteq saved
  /\ \A r \in Runs : pc[r] \in {"look", "open", "read", "remove", "ask"} => answer[r] = None

\* File f does not hold an answer that q's answer replaces.
Replaced(q, f) == content[f].by \notin after[q]

\* Once q has truncated the file, nobody finds by its name what q's answer replaces,
\* and who looked when q was through has not opened it under its name either.
Replacing ==
  /\ \A q \in Runs : (pc[q] = "write" \/ q \in saved) /\ path # None => Replaced(q, path)
  /\ \A r \in Runs : pc[r] = "read" => \A q \in before[r] : Replaced(q, fd[r])

\* The file that has the name is not older than the one os.Stat saw.
Ages ==
  /\ \A r \in Runs : looked[r] <= now
  /\ \A r \in Runs : pc[r] = "open" /\ path # None => mtime[path] + Expiration >= looked[r]
  /\ \A r \in Runs : pc[r] = "read" => mtime[fd[r]] + Expiration >= looked[r]

IndInv == TypeOK /\ Savers /\ Replacing /\ UpdateIsSeen /\ Ages /\ NothingExpired

LEMMA IndInvInit == Init => IndInv
BY TypeInit, FileCacheAssumption
   DEF Init, IndInv, Savers, Replacing, UpdateIsSeen, Ages, NothingExpired, Loaded

LEMMA SaversStep == TypeOK /\ Savers /\ [Next]_vars => Savers'
<1> SUFFICES ASSUME TypeOK, Savers, [Next]_vars PROVE Savers'
  OBVIOUS
<1> USE FileCacheAssumption DEF TypeOK, Savers, Goto, disk, notes
<1>1. CASE Tick
  BY <1>1 DEF Tick
<1>2. ASSUME NEW r \in Runs, LookFinds(r) \/ LookMisses(r) PROVE Savers'
  BY <1>2 DEF LookFinds, LookMisses, Look
<1>3. ASSUME NEW r \in Runs, Open(r) \/ ReadParses(r) \/ ReadFails(r) \/ Remove(r)
      PROVE Savers'
  BY <1>3 DEF Open, ReadParses, ReadFails, Remove
<1>4. ASSUME NEW r \in Runs, AskAnswered(r) \/ AskAgain(r) \/ AskFails(r) PROVE Savers'
  <2>1. CASE AskAnswered(r)
    BY <2>1 DEF AskAnswered
  <2>2. CASE AskAgain(r) \/ AskFails(r)
    BY <2>2 DEF AskAgain, AskFails
  <2>. QED
    BY <1>4, <2>1, <2>2
<1>5. ASSUME NEW r \in Runs, Create(r) \/ CreateFails(r) PROVE Savers'
  BY <1>5 DEF Create, CreateIn, CreateFails
<1>6. ASSUME NEW r \in Runs, Write(r) \/ WriteShort(r) PROVE Savers'
  BY <1>6 DEF Write, WriteShort, Put
<1>7. ASSUME NEW r \in Runs, Crash(r) PROVE Savers'
  BY <1>7 DEF Crash
<1>8. CASE UNCHANGED vars
  BY <1>8 DEF vars
<1>. QED
  BY <1>1, <1>2, <1>3, <1>4, <1>5, <1>6, <1>7, <1>8 DEF Next, Load, Update

\* The steps that leave every file and its name as they are do not disturb what
\* Replacing says of the name, and only Open and Look what it says of the readers.
LEMMA ReplacingStep == IndInv /\ [Next]_vars => Replacing'
<1> SUFFICES ASSUME IndInv, [Next]_vars PROVE Replacing'
  OBVIOUS
<1> USE FileCacheAssumption DEF IndInv, TypeOK, Savers, Replacing, Replaced, Goto, disk, notes
<1>1. CASE Tick
  BY <1>1 DEF Tick
<1>2. ASSUME NEW r \in Runs, LookFinds(r) \/ LookMisses(r) PROVE Replacing'
  <2>1. /\ pc[r] = "look"
        /\ pc' \in {[pc EXCEPT ![r] = "open"], [pc EXCEPT ![r] = "ask"]}
        /\ before' \in {before, [before EXCEPT ![r] = saved]}
        /\ UNCHANGED <<disk, fd, saved, after>>
    BY <1>2 DEF LookFinds, LookMisses, Look
  <2>2. \A q \in Runs : /\ pc'[q] = "write" => pc[q] = "write"
                       /\ pc'[q] = "read" => pc[q] = "read" /\ before'[q] = before[q]
    BY <2>1
  <2>. QED
    BY <2>1, <2>2
<1>3. ASSUME NEW r \in Runs, Open(r) PROVE Replacing'
  BY <1>3 DEF Open
<1>4. ASSUME NEW r \in Runs, ReadParses(r) \/ ReadFails(r) PROVE Replacing'
  BY <1>4 DEF ReadParses, ReadFails
<1>5. ASSUME NEW r \in Runs, Remove(r) PROVE Replacing'
  BY <1>5 DEF Remove
<1>6. ASSUME NEW r \in Runs, AskAnswered(r) \/ AskAgain(r) \/ AskFails(r) PROVE Replacing'
  <2>1. /\ pc[r] = "ask"
        /\ \E s \in {"create", "look", "done"} : pc' = [pc EXCEPT ![r] = s]
        /\ \A q \in Runs \ {r} : after'[q] = after[q]
        /\ UNCHANGED <<path, content, fd, saved, before>>
    BY <1>6 DEF AskAnswered, AskAgain, AskFails
  <2>2. r \notin saved /\ \A q \in Runs : r \notin before[q]
    BY <2>1
  <2>3. \A q \in Runs : /\ pc'[q] = "write" => pc[q] = "write" /\ q # r
                       /\ pc'[q] = "read" => pc[q] = "read"
    BY <2>1
  <2>. QED
    BY <2>1, <2>2, <2>3
<1>7. ASSUME NEW r \in Runs, Create(r) PROVE Replacing'
  <2> DEFINE f == IF path = None THEN r ELSE path
  <2>1. f \in Runs /\ path' = f /\ content' = [content EXCEPT ![f] = Empty]
        /\ UNCHANGED <<saved, before, after>> /\ pc' = [pc EXCEPT ![r] = "write"]
        /\ fd' = [fd EXCEPT ![r] = f] /\ pc[r] = "create"
    BY <1>7 DEF Create, CreateIn
  <2>2. \A q \in Runs : Empty.by \notin after[q]
    BY DEF Empty
  <2>3. Empty \in [by : Runs \cup {None}, size : Nat, whole : BOOLEAN]
    BY DEF Empty
  <2>4. content'[f] = Empty /\ \A g \in Runs : content'[g].by \in {content[g].by, Empty.by}
    BY <2>1, <2>3
  <2>5. \A q \in Runs : content'[path'].by \notin after'[q]
    BY <2>1, <2>2, <2>4
  <2>6. ASSUME NEW q \in Runs, pc'[q] = "read", NEW p \in before'[q]
        PROVE  content'[fd'[q]].by \notin after'[p]
    <3>1. q # r /\ pc[q] = "read" /\ p \in before[q] /\ fd'[q] = fd[q] /\ fd[q] \in Runs
      BY <2>1, <2>6
    <3>. QED
      BY <2>1, <2>2, <2>4, <3>1
  <2>. QED
    BY <2>1, <2>5, <2>6
<1>8. ASSUME NEW r \in Runs, CreateFails(r) PROVE Replacing'
  BY <1>8 DEF CreateFails
<1>9. ASSUME NEW r \in Runs, Write(r) \/ WriteShort(r) PROVE Replacing'
  <2>1. /\ pc[r] = "write" /\ pc' = [pc EXCEPT ![r] = "done"]
        /\ fd' = [fd EXCEPT ![r] = None]
        /\ UNCHANGED <<path, before, after>> /\ saved' \in {saved, saved \cup {r}}
    BY <1>9 DEF Write, WriteShort, Put
  <2>2. \A f \in Runs : content'[f].by \in {content[f].by, r}
    BY <1>9 DEF Write, WriteShort, Put
  <2>3. \A q \in Runs : r \notin after[q]
    BY <2>1
  <2>4. ASSUME path' # None, NEW q \in Runs, pc'[q] = "write" \/ q \in saved'
        PROVE  content'[path'].by \notin after'[q]
    <3>1. pc[q] = "write" \/ q \in saved
      BY <2>1, <2>4
    <3>2. path \in Runs /\ path' = path /\ content[path].by \notin after[q]
      BY <2>1, <2>4, <3>1
    <3>. QED
      BY <2>1, <2>2, <2>3, <3>2
  <2>5. ASSUME NEW q \in Runs, pc'[q] = "read", NEW p \in before'[q]
        PROVE  content'[fd'[q]].by \notin after'[p]
    <3>1. q # r /\ pc[q] = "read" /\ p \in before[q] /\ fd'[q] = fd[q] /\ fd[q] \in Runs
      BY <2>1, <2>5
    <3>. QED
      BY <2>1, <2>2, <2>3, <3>1
  <2>. QED
    BY <2>4, <2>5
<1>10. ASSUME NEW r \in Runs, Crash(r) PROVE Replacing'
  BY <1>10 DEF Crash
<1>11. CASE UNCHANGED vars
  BY <1>11 DEF vars
<1>. QED
  BY <1>1, <1>2, <1>3, <1>4, <1>5, <1>6, <1>7, <1>8, <1>9, <1>10, <1>11
     DEF Next, Load, Update

\* Only a read makes a run work with the answer of another, and q's answer is not
\* asked for again once q is over.
LEMMA SeenStep == IndInv /\ [Next]_vars => UpdateIsSeen'
<1> SUFFICES ASSUME IndInv, [Next]_vars PROVE UpdateIsSeen'
  OBVIOUS
<1> USE FileCacheAssumption DEF IndInv, TypeOK, Savers, UpdateIsSeen, Loaded, Goto, disk, notes
<1>1. ASSUME UNCHANGED <<answer, before, after>> PROVE UpdateIsSeen'
  BY <1>1
<1>2. ASSUME NEW r \in Runs, LookFinds(r) \/ LookMisses(r) PROVE UpdateIsSeen'
  BY <1>2 DEF LookFinds, LookMisses, Look
<1>3. ASSUME NEW r \in Runs, ReadParses(r) PROVE UpdateIsSeen'
  BY <1>3 DEF ReadParses, Replacing, Replaced
<1>4. ASSUME NEW r \in Runs, AskAnswered(r) \/ AskAgain(r) \/ AskFails(r) PROVE UpdateIsSeen'
  BY <1>4 DEF AskAnswered, AskAgain, AskFails
<1>. QED
  BY <1>1, <1>2, <1>3, <1>4
     DEF Next, Load, Update, Tick, Open, ReadFails, Remove, Create, CreateIn, CreateFails,
         Write, WriteShort, Put, Crash, vars

LEMMA AgesStep == IndInv /\ [Next]_vars => Ages' /\ NothingExpired'
<1> SUFFICES ASSUME IndInv, [Next]_vars PROVE Ages' /\ NothingExpired'
  OBVIOUS
<1> USE FileCacheAssumption DEF IndInv, TypeOK, Savers, Ages, NothingExpired, Loaded, Goto
<1> USE DEF disk, notes
<1>1. CASE Tick
  BY <1>1 DEF Tick
<1>2. ASSUME NEW r \in Runs, LookFinds(r) \/ LookMisses(r) PROVE Ages' /\ NothingExpired'
  <2>1. /\ pc[r] = "look"
        /\ \/ /\ looked' = [looked EXCEPT ![r] = now]
              /\ pc' = [pc EXCEPT ![r] = "open"] /\ path # None /\ Fresh(path)
           \/ looked' = looked /\ pc' = [pc EXCEPT ![r] = "ask"]
        /\ UNCHANGED <<now, disk, fd, size, answer, seen>>
    BY <1>2 DEF LookFinds, LookMisses, Look
  <2>2. \A q \in Runs \ {r} : looked'[q] = looked[q] /\ pc'[q] = pc[q]
    BY <2>1
  <2>3. looked'[r] <= now /\ pc'[r] # "read" /\ answer[r] = None
    BY <2>1
  <2>4. \A q \in Runs : looked'[q] <= now /\ (pc'[q] = "read" => pc[q] = "read" /\ q # r)
    BY <2>1, <2>2, <2>3
  <2>5. ASSUME NEW q \in Runs, pc'[q] = "open", path # None
        PROVE  mtime[path] + Expiration >= looked'[q]
    <3>1. CASE q # r
      BY <2>2, <2>5, <3>1
    <3>2. CASE q = r
      BY <2>1, <2>5, <3>2 DEF Fresh
    <3>. QED
      BY <3>1, <3>2
  <2>6. Ages'
    BY <2>1, <2>2, <2>4, <2>5
  <2>. QED
    BY <2>1, <2>2, <2>3, <2>6
<1>3. ASSUME NEW r \in Runs, Open(r) PROVE Ages' /\ NothingExpired'
  BY <1>3 DEF Open
<1>4. ASSUME NEW r \in Runs, ReadParses(r) \/ ReadFails(r) PROVE Ages' /\ NothingExpired'
  <2>1. CASE ReadParses(r)
    <3>1. /\ pc[r] = "read" /\ pc' = [pc EXCEPT ![r] = "done"]
          /\ seen' = [seen EXCEPT ![r] = mtime[fd[r]]]
          /\ answer' = [answer EXCEPT ![r] = content[fd[r]].by]
          /\ fd' = [fd EXCEPT ![r] = None]
          /\ UNCHANGED <<now, disk, looked>>
      BY <2>1 DEF ReadParses
    <3>2. Ages'
      BY <3>1
    <3>3. seen'[r] + Expiration >= looked[r]
      BY <3>1
    <3>4. \A q \in Runs \ {r} : seen'[q] = seen[q] /\ answer'[q] = answer[q]
      BY <3>1
    <3>. QED
      BY <3>1, <3>2, <3>3, <3>4
  <2>2. CASE ReadFails(r)
    BY <2>2 DEF ReadFails
  <2>. QED
    BY <1>4, <2>1, <2>2
<1>5. ASSUME NEW r \in Runs, Remove(r) PROVE Ages' /\ NothingExpired'
  BY <1>5 DEF Remove
<1>6. ASSUME NEW r \in Runs, AskAnswered(r) \/ AskAgain(r) \/ AskFails(r) PROVE Ages' /\ NothingExpired'
  BY <1>6 DEF AskAnswered, AskAgain, AskFails
<1>7. ASSUME NEW r \in Runs, Create(r) \/ CreateFails(r) PROVE Ages' /\ NothingExpired'
  <2>1. CASE Create(r)
    BY <2>1 DEF Create, CreateIn
  <2>2. CASE CreateFails(r)
    BY <2>2 DEF CreateFails
  <2>. QED
    BY <1>7, <2>1, <2>2
<1>8. ASSUME NEW r \in Runs, Write(r) \/ WriteShort(r) PROVE Ages' /\ NothingExpired'
  <2>1. /\ pc' = [pc EXCEPT ![r] = "done"] /\ fd' = [fd EXCEPT ![r] = None]
        /\ mtime' = [mtime EXCEPT ![fd[r]] = now]
        /\ UNCHANGED <<now, path, answer, looked, seen>>
    BY <1>8 DEF Write, WriteShort, Put
  <2>2. \A f \in Runs : mtime'[f] >= mtime[f] \/ mtime'[f] = now
    BY <2>1
  <2>3. \A q \in Runs : pc'[q] \in {"open", "read"} => pc'[q] = pc[q] /\ fd'[q] = fd[q]
    BY <2>1
  <2>4. Ages'
    BY <2>1, <2>2, <2>3
  <2>. QED
    BY <2>1, <2>4
<1>9. ASSUME NEW r \in Runs, Crash(r) PROVE Ages' /\ NothingExpired'
  BY <1>9 DEF Crash
<1>10. CASE UNCHANGED vars
  BY <1>10 DEF vars
<1>. QED
  BY <1>1, <1>2, <1>3, <1>4, <1>5, <1>6, <1>7, <1>8, <1>9, <1>10 DEF Next, Load, Update

LEMMA IndInvStep == IndInv /\ [Next]_vars => IndInv'
BY TypeStep, SaversStep, ReplacingStep, SeenStep, AgesStep DEF IndInv

-----------------------------------------------------------------------------
(***************************************************************************)
(* Theorems                                                                *)
(***************************************************************************)

\* The invariant holds of every behaviour.
THEOREM FileInvariance == Spec => []IndInv
BY IndInvInit, IndInvStep, PTL DEF Spec

\* Every variable keeps its type; in particular whoever reads or writes has opened
\* a file (cache.go:286, network.go:78).
THEOREM FileTypeCorrect == Spec => []TypeOK
<1>1. IndInv => TypeOK
  BY DEF IndInv
<1>. QED
  BY <1>1, FileInvariance, PTL

\* No run loads data that had expired when it looked, however many runs truncate,
\* remove and write the file meanwhile (cache.go:276-294).
THEOREM NothingExpiredIsLoaded == Spec => []NothingExpired
<1>1. IndInv => NothingExpired
  BY DEF IndInv
<1>. QED
  BY <1>1, FileInvariance, PTL

\* No run loads an answer that a later, finished update has replaced, for any number
\* of runs that overlap, fail or are killed (network.go:57-91, cache.go:276-334).
THEOREM UpdatesAreSeen == Spec => []UpdateIsSeen
<1>1. IndInv => UpdateIsSeen
  BY DEF IndInv
<1>. QED
  BY <1>1, FileInvariance, PTL
=============================================================================
