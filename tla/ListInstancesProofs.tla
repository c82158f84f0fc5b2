------------------------- MODULE ListInstancesProofs -------------------------
(***************************************************************************)
(* Theorems about ListInstances, for every page size, every width of the   *)
(* offset and every history of the fleet and of its files.                 *)
(***************************************************************************)
EXTENDS ListInstances, FiniteSetTheorems, SequenceTheorems, TLAPS

-----------------------------------------------------------------------------
(***************************************************************************)
(* Pages, and how often an instance is in one                              *)
(***************************************************************************)

\* The page of fleet f at offset o.
Cut(f, o) == SubSeq(f, o + 1, IF o + MaxLimit < Len(f) THEN o + MaxLimit ELSE Len(f))

\* No instance is twice in s.
Distinct(s) == \A m, n \in DOMAIN s : s[m] = s[n] => m = n

Count(s, i) == Cardinality({n \in DOMAIN s : s[n] = i})

\* A page is what its fleet has from the offset on, and the rest if that is shorter.
LEMMA PageParts ==
  ASSUME NEW f \in Seq(Ids), NEW o \in Nat
  PROVE  /\ Cut(f, o) \in Seq(Ids)
         /\ Len(Cut(f, o)) <= MaxLimit
         /\ o <= Len(f) => Len(Cut(f, o)) = IF o + MaxLimit < Len(f) THEN MaxLimit ELSE Len(f) - o
         /\ \A n \in 1 .. Len(Cut(f, o)) : o + n \in 1 .. Len(f) /\ Cut(f, o)[n] = f[o + n]
<1> DEFINE last == IF o + MaxLimit < Len(f) THEN o + MaxLimit ELSE Len(f)
<1>1. MaxLimit \in Nat \ {0} /\ Len(f) \in Nat /\ last \in Nat /\ last <= Len(f)
  BY ListAssumption
<1>2. \A n \in o + 1 .. last : f[n] \in Ids
  BY <1>1
<1>3. /\ SubSeq(f, o + 1, last) \in Seq(Ids)
      /\ Len(SubSeq(f, o + 1, last)) = IF o + 1 <= last THEN last - (o + 1) + 1 ELSE 0
      /\ \A n \in 1 .. last - (o + 1) + 1 : SubSeq(f, o + 1, last)[n] = f[o + 1 + n - 1]
  <2> HIDE DEF last
  <2> QED  BY <1>1, <1>2, SubSeqProperties
<1>4. Cut(f, o) = SubSeq(f, o + 1, last)
  BY DEF Cut
<1> QED  BY <1>1, <1>3, <1>4

\* An instance is in a sequence without repetition once or not at all.
LEMMA CountProperties ==
  ASSUME NEW s \in Seq(Ids), NEW i
  PROVE  /\ Count(s, i) \in Nat
         /\ (\A n \in DOMAIN s : s[n] # i) => Count(s, i) = 0
         /\ Distinct(s) /\ (\E n \in DOMAIN s : s[n] = i) => Count(s, i) = 1
<1> DEFINE S == {n \in DOMAIN s : s[n] = i}
<1>1. IsFiniteSet(S)
  <2>1. IsFiniteSet(1 .. Len(s)) /\ S \in SUBSET (1 .. Len(s))
    BY FS_Interval
  <2> QED  BY <2>1, FS_Subset
<1>2. Cardinality(S) \in Nat
  BY <1>1, FS_CardinalityType
<1>3. ASSUME \A n \in DOMAIN s : s[n] # i PROVE Cardinality(S) = 0
  <2>1. S = {}
    BY <1>3
  <2> QED  BY <2>1, FS_EmptySet
<1>4. ASSUME Distinct(s), NEW n \in DOMAIN s, s[n] = i PROVE Cardinality(S) = 1
  <2>1. S = {n}
    BY <1>4 DEF Distinct
  <2> QED  BY <2>1, FS_Singleton
<1> QED  BY <1>2, <1>3, <1>4 DEF Count

\* A page without repetition has every instance of its part of the fleet once.
LEMMA PageCounts ==
  ASSUME NEW f \in Seq(Ids), NEW o \in Nat, Distinct(f), NEW i
  PROVE  Count(Cut(f, o), i) =
           IF \E n \in 1 .. Len(Cut(f, o)) : f[o + n] = i THEN 1 ELSE 0
<1> DEFINE p == Cut(f, o)
<1>1. /\ p \in Seq(Ids)
      /\ \A n \in 1 .. Len(p) : o + n \in 1 .. Len(f) /\ p[n] = f[o + n]
  BY PageParts
<1> HIDE DEF p
<1>2. DOMAIN p = 1 .. Len(p) /\ Len(p) \in Nat
  BY <1>1
<1>3. Distinct(p)
  <2> SUFFICES ASSUME NEW m \in 1 .. Len(p), NEW n \in 1 .. Len(p), p[m] = p[n] PROVE m = n
    BY <1>2 DEF Distinct
  <2>1. o + m \in DOMAIN f /\ o + n \in DOMAIN f /\ f[o + m] = f[o + n]
    BY <1>1
  <2>2. o + m = o + n
    BY <2>1 DEF Distinct
  <2> QED  BY <1>2, <2>2
<1>4. ASSUME NEW n \in 1 .. Len(p), f[o + n] = i PROVE Count(p, i) = 1
  <2>1. n \in DOMAIN p /\ p[n] = i
    BY <1>1, <1>2, <1>4
  <2> QED  BY <1>1, <1>3, <2>1, CountProperties
<1>5. ASSUME \A n \in 1 .. Len(p) : f[o + n] # i PROVE Count(p, i) = 0
  <2>1. \A n \in DOMAIN p : p[n] # i
    BY <1>1, <1>2, <1>5
  <2> QED  BY <1>1, <2>1, CountProperties
<1> QED  BY <1>4, <1>5 DEF p

-----------------------------------------------------------------------------
(***************************************************************************)
(* The inductive invariant.  A saved page is the one a former fleet has at *)
(* the offset of its file, so that as long as all pages that were read are *)
(* of one fleet the offset says how much of it was read.                   *)
(***************************************************************************)

FleetsOK ==
  /\ fleets \in Seq(Seq(Ids)) /\ Now >= 1
  /\ \A e \in 1 .. Now : Distinct(fleets[e])

FilesOK ==
  /\ DOMAIN file = 0 .. Wrap - 1
  /\ \A o \in 0 .. Wrap - 1 :
       file[o] # None =>
         file[o].era \in 1 .. Now /\ file[o].page = Cut(fleets[file[o].era], o)

RestOK ==
  /\ noCache \in BOOLEAN
  /\ began \in 1 .. Now
  /\ eras \subseteq 1 .. Now
  /\ offset \in 0 .. Wrap - 1
  /\ lister \in {"idle", "listing", "waiting", "closed", "failed"}
  /\ senders \in [Ids -> Nat]
  /\ buf \in Ids \cup {None}
  /\ got \in [Ids -> Nat]
  /\ lister = "idle" => eras = {}
  /\ lister = "closed" => \A i \in Ids : senders[i] = 0

\* Before the first page was read nothing was listed.
NothingYet == eras = {} => offset = 0 /\ \A i \in Ids : Listed(i) = 0

\* The pages are all of fleet e: the offset is at the end of one of them.
Reading(e) ==
  /\ \E k \in Nat : offset = k * MaxLimit
  /\ lister \in {"idle", "listing"} => offset <= Len(fleets[e])
  /\ \A i \in Ids : Listed(i) = IF i \in Read(e) THEN 1 ELSE 0

ReadingOK == Fits => \A e \in 1 .. Now : eras = {e} => Reading(e)

\* The same however far the offset has wrapped: up to h all is listed, and the
\* next page begins there or before.
Covering(e) ==
  \E h \in Nat :
    /\ offset <= h
    /\ \A n \in DOMAIN fleets[e] :
         n <= h \/ lister \in {"waiting", "closed"} => Listed(fleets[e][n]) > 0

CoveringOK == \A e \in 1 .. Now : eras = {e} => Covering(e)

\* No instance was ever removed.
Growing == \A e \in 2 .. Now : Members(e - 1) \subseteq Members(e)

Prefix(f, g) == Len(f) <= Len(g) /\ \A n \in 1 .. Len(f) : f[n] = g[n]

\* Then a fleet begins with all that were there before it.
PrefixOK == Growing => \A d, e \in 1 .. Now : d <= e => Prefix(fleets[d], fleets[e])

\* What was listed are the first h instances of the fleet: of a short page of a former
\* fleet there may be some that were not there yet.
Gathered ==
  \E h \in 0 .. Len(Fleet) :
    /\ lister \in {"idle", "listing"} => h = offset
    /\ lister \in {"waiting", "closed"} => h >= Len(fleets[1])
    /\ \A i \in Ids : Listed(i) = IF \E n \in 1 .. h : Fleet[n] = i THEN 1 ELSE 0
    /\ \E k \in Nat : offset = k * MaxLimit

GatheringOK == Fits /\ Growing => Gathered

ListInv ==
  /\ FleetsOK /\ FilesOK /\ RestOK /\ NothingYet
  /\ ReadingOK /\ CoveringOK /\ PrefixOK /\ GatheringOK
  /\ NoCacheIsFresh

\* The program starts with one fleet, whose instances differ.
LEMMA InitInv ==
  Init => ListInv
<1> SUFFICES ASSUME Init PROVE ListInv
  OBVIOUS
<1>1. PICK n \in Totals : fleets = << [k \in 1 .. n |-> k - 1] >>
  BY DEF Init
<1> DEFINE f == [k \in 1 .. n |-> k - 1]
<1>2. n \in Nat /\ n <= MaxIds
  BY ListAssumption
<1>3. f \in Seq(Ids)
  <2>1. \A k \in 1 .. n : k - 1 \in Ids
    BY <1>2, ListAssumption DEF Ids
  <2> QED  BY <1>2, <2>1
<1>4. Distinct(f)
  BY <1>2 DEF Distinct
<1>5. FleetsOK
  <2> HIDE DEF f
  <2>1. fleets = <<f>> /\ f \in Seq(Ids)
    BY <1>1, <1>3 DEF f
  <2>2. fleets = Append(<<>>, f)
    BY <2>1
  <2>3. fleets \in Seq(Seq(Ids)) /\ Len(fleets) = 1 /\ fleets[1] = f
    <3>1. <<>> \in Seq(Seq(Ids)) /\ Len(<<>>) = 0
      BY EmptySeq
    <3> QED  BY <2>1, <2>2, <3>1, AppendProperties
  <2>4. \A e \in 1 .. Now : fleets[e] = f
    BY <2>3 DEF Now
  <2> QED  BY <1>4, <2>3, <2>4 DEF FleetsOK, Now
<1>6. FilesOK
  BY DEF Init, FilesOK
<1>7. \A i \in Ids : Listed(i) = 0
  BY ListAssumption DEF Init, Listed, Ids
<1>8. RestOK
  BY <1>5, ListAssumption DEF Init, RestOK, FleetsOK
<1>9. NothingYet /\ ReadingOK /\ CoveringOK /\ NoCacheIsFresh
  BY <1>7 DEF Init, NothingYet, ReadingOK, CoveringOK, NoCacheIsFresh
<1>10. Now = 1 /\ fleets[1] = f /\ Fleet = f
  BY <1>1 DEF Now, Fleet
<1>11. PrefixOK
  BY <1>10 DEF PrefixOK, Prefix
<1>12. Gathered
  <2>1. Len(f) \in Nat /\ 0 \in 0 .. Len(f) /\ offset = 0 * MaxLimit /\ offset = 0 /\ lister = "idle"
    BY <1>2, ListAssumption DEF Init
  <2>2. \A i \in Ids : Listed(i) = IF \E m \in 1 .. 0 : Fleet[m] = i THEN 1 ELSE 0
    BY <1>7
  <2> QED  BY <1>10, <2>1, <2>2 DEF Gathered
<1> QED  BY <1>5, <1>6, <1>8, <1>9, <1>11, <1>12 DEF ListInv, GatheringOK

-----------------------------------------------------------------------------
(***************************************************************************)
(* The account and other runs                                              *)
(***************************************************************************)

\* A new fleet comes after the others.
LEMMA NewFleet ==
  ASSUME FleetsOK, NEW g \in Seq(Ids), Distinct(g), fleets' = Append(fleets, g)
  PROVE  /\ FleetsOK' /\ Now' = Now + 1
         /\ \A e \in 1 .. Now : fleets'[e] = fleets[e]
         /\ fleets'[Now + 1] = g
<1>1. /\ fleets' \in Seq(Seq(Ids))
      /\ Len(fleets') = Len(fleets) + 1
      /\ \A e \in 1 .. Len(fleets) : fleets'[e] = fleets[e]
      /\ fleets'[Len(fleets) + 1] = g
  BY AppendProperties DEF FleetsOK
<1>2. Now' = Now + 1 /\ \A e \in 1 .. Now : fleets'[e] = fleets[e]
  BY <1>1 DEF Now
<1>3. ASSUME NEW e \in 1 .. Now' PROVE Distinct(fleets'[e])
  <2>1. CASE e \in 1 .. Now
    BY <1>2, <2>1 DEF FleetsOK
  <2>2. CASE e = Now + 1
    BY <1>1, <2>2 DEF Now
  <2> QED  BY <1>2, <2>1, <2>2 DEF FleetsOK, Now
<1> QED  BY <1>1, <1>2, <1>3 DEF FleetsOK, Now, Distinct

\* What is said of the fleets alone stays as it is with them.
LEMMA SameFleets ==
  ASSUME UNCHANGED fleets
  PROVE  /\ Now' = Now /\ Fleet' = Fleet
         /\ Fits' <=> Fits
         /\ Growing' <=> Growing
         /\ PrefixOK' <=> PrefixOK
<1>1. Now' = Now /\ Fleet' = Fleet
  BY DEF Now, Fleet
<1>2. \A e : Members(e)' = Members(e)
  BY DEF Members
<1>3. Growing' <=> Growing
  BY <1>1, <1>2 DEF Growing
<1>4. PrefixOK' <=> PrefixOK
  BY <1>1, <1>3 DEF PrefixOK, Prefix
<1>5. Fits' <=> Fits
  BY DEF Fits, TooMany
<1> QED  BY <1>1, <1>3, <1>4, <1>5

\* Prefixes of prefixes.
LEMMA PrefixTransitive ==
  ASSUME NEW f \in Seq(Ids), NEW g \in Seq(Ids), NEW h \in Seq(Ids), Prefix(f, g), Prefix(g, h)
  PROVE  Prefix(f, h)
<1>1. Len(f) \in Nat /\ Len(g) \in Nat /\ Len(h) \in Nat
  OBVIOUS
<1> QED  BY <1>1 DEF Prefix

\* A fleet that lacks an instance of the one before is not one of a growing account.
LEMMA NewPrefix ==
  ASSUME FleetsOK, PrefixOK, NEW g \in Seq(Ids),
         Now' = Now + 1, \A e \in 1 .. Now : fleets'[e] = fleets[e], fleets'[Now + 1] = g,
         Prefix(Fleet, g) \/ \E k \in DOMAIN Fleet : \A n \in DOMAIN g : g[n] # Fleet[k]
  PROVE  PrefixOK'
<1>1. Now \in Nat /\ Now >= 1 /\ Fleet = fleets[Now]
  BY DEF FleetsOK, Now, Fleet
<1>2. Now + 1 \in 2 .. Now + 1 /\ (Now + 1) - 1 = Now /\ Now \in 1 .. Now
  BY <1>1
<1> SUFFICES ASSUME Growing', NEW d \in 1 .. Now + 1, NEW e \in 1 .. Now + 1, d <= e
             PROVE  Len(fleets'[d]) <= Len(fleets'[e])
                    /\ \A n \in 1 .. Len(fleets'[d]) : fleets'[d][n] = fleets'[e][n]
  BY DEF PrefixOK, Prefix
<1>3. \A c \in 2 .. Now + 1 : \A m \in DOMAIN fleets'[c - 1] : \E n \in DOMAIN fleets'[c] : fleets'[c][n] = fleets'[c - 1][m]
  <2>1. \A c \in 2 .. Now' : Members(c - 1)' \subseteq Members(c)'
    BY DEF Growing
  <2>2. \A c \in 2 .. Now + 1 : Members(c - 1)' \subseteq Members(c)'
    BY <2>1
  <2>3. ASSUME NEW c \in 2 .. Now + 1, NEW m \in DOMAIN fleets'[c - 1]
        PROVE  \E n \in DOMAIN fleets'[c] : fleets'[c][n] = fleets'[c - 1][m]
    <3>1. fleets'[c - 1][m] \in Members(c - 1)'
      BY DEF Members
    <3>2. fleets'[c - 1][m] \in Members(c)'
      BY <2>2, <3>1
    <3> QED  BY <3>2 DEF Members
  <2> QED  BY <2>3
<1>4. \A m \in DOMAIN Fleet : \E n \in DOMAIN g : g[n] = Fleet[m]
  <2>1. fleets'[Now] = Fleet
    BY <1>1, <1>2
  <2>2. \A m \in DOMAIN fleets'[(Now + 1) - 1] : \E n \in DOMAIN fleets'[Now + 1] : fleets'[Now + 1][n] = fleets'[(Now + 1) - 1][m]
    BY <1>2, <1>3
  <2> QED  BY <1>2, <2>1, <2>2
<1>5. Prefix(Fleet, g)
  BY <1>4
<1>6. Growing
  <2> SUFFICES ASSUME NEW c \in 2 .. Now, NEW x \in Members(c - 1) PROVE x \in Members(c)
    BY DEF Growing
  <2>1. c \in 2 .. Now + 1 /\ fleets'[c - 1] = fleets[c - 1] /\ fleets'[c] = fleets[c]
    BY <1>1
  <2>2. \A m \in DOMAIN fleets[c - 1] : \E n \in DOMAIN fleets[c] : fleets[c][n] = fleets[c - 1][m]
    BY <1>3, <2>1
  <2> QED  BY <2>2 DEF Members
<1>7. \A b \in 1 .. Now : fleets[b] \in Seq(Ids)
  BY DEF FleetsOK, Now
<1>8. CASE e \in 1 .. Now
  <2>1. d \in 1 .. Now /\ fleets'[d] = fleets[d] /\ fleets'[e] = fleets[e]
    BY <1>1, <1>8
  <2>2. Prefix(fleets[d], fleets[e])
    BY <1>6, <1>8, <2>1 DEF PrefixOK
  <2> QED  BY <2>1, <2>2 DEF Prefix
<1>9. CASE e = Now + 1 /\ d \in 1 .. Now
  <2>1. Now \in 1 .. Now /\ d <= Now /\ Fleet \in Seq(Ids) /\ fleets[d] \in Seq(Ids)
    BY <1>1, <1>2, <1>7, <1>9
  <2>2. Prefix(fleets[d], Fleet)
    BY <1>1, <1>6, <1>9, <2>1 DEF PrefixOK
  <2>3. Prefix(fleets[d], g)
    BY <1>5, <2>1, <2>2, PrefixTransitive
  <2>4. fleets'[d] = fleets[d] /\ fleets'[e] = g
    BY <1>9
  <2> QED  BY <2>3, <2>4 DEF Prefix
<1>10. CASE e = Now + 1 /\ d = Now + 1
  <2>1. Len(g) \in Nat /\ fleets'[d] = g /\ fleets'[e] = g
    BY <1>10
  <2> QED  BY <2>1
<1>11. d \in 1 .. Now \/ d = Now + 1
  BY <1>1
<1>12. e \in 1 .. Now \/ e = Now + 1
  BY <1>1
<1>13. d = Now + 1 => e = Now + 1
  BY <1>1
<1> QED  BY <1>8, <1>9, <1>10, <1>11, <1>12, <1>13

\* What was said of the fleets that were there is still so.
LEMMA FleetStep ==
  ASSUME ListInv, FleetsOK', FilesOK', PrefixOK',
         Now' >= Now, \A e \in 1 .. Now : fleets'[e] = fleets[e],
         UNCHANGED <<noCache, began, eras, offset, lister, senders, buf, got>>
  PROVE  ListInv'
<1>1. Now \in Nat /\ Now' \in Nat /\ DOMAIN fleets = 1 .. Now /\ DOMAIN fleets' = 1 .. Now'
  BY DEF ListInv, FleetsOK, Now
<1>2. RestOK'
  BY <1>1 DEF ListInv, RestOK
<1>3. \A i : Listed(i)' = Listed(i)
  BY DEF Listed
<1>4. NothingYet'
  BY <1>3 DEF ListInv, NothingYet
<1>5. \A e \in 1 .. Now : Members(e)' = Members(e)
  BY DEF Members
<1>6. NoCacheIsFresh'
  <2> SUFFICES ASSUME noCache', NEW i \in Ids, Listed(i)' > 0
               PROVE  \E e \in began' .. Now' : i \in Members(e)'
    BY DEF NoCacheIsFresh
  <2>1. PICK e \in began .. Now : i \in Members(e)
    BY <1>3 DEF ListInv, NoCacheIsFresh
  <2>2. e \in 1 .. Now /\ e \in began' .. Now'
    BY <1>1, <2>1 DEF ListInv, RestOK
  <2> QED  BY <1>5, <2>1, <2>2
<1>7. ReadingOK'
  <2> SUFFICES ASSUME Fits', NEW e \in 1 .. Now', eras' = {e} PROVE Reading(e)'
    BY DEF ReadingOK
  <2>1. Fits
    BY <1>1 DEF Fits, TooMany
  <2>2. e \in 1 .. Now /\ fleets'[e] = fleets[e]
    BY DEF ListInv, RestOK
  <2>3. Reading(e)
    BY <2>1, <2>2 DEF ListInv, ReadingOK
  <2>4. Read(e)' = Read(e)
    BY <2>2 DEF Read
  <2> QED  BY <1>3, <2>2, <2>3, <2>4 DEF Reading
<1>8. CoveringOK'
  <2> SUFFICES ASSUME NEW e \in 1 .. Now', eras' = {e} PROVE Covering(e)'
    BY DEF CoveringOK
  <2>1. e \in 1 .. Now /\ fleets'[e] = fleets[e]
    BY DEF ListInv, RestOK
  <2>2. Covering(e)
    BY <2>1 DEF ListInv, CoveringOK
  <2> QED  BY <1>3, <2>1, <2>2 DEF Covering
<1>9. GatheringOK'
  <2> SUFFICES ASSUME Fits', Growing' PROVE Gathered'
    BY DEF GatheringOK
  <2>1. Fits
    BY <1>1 DEF Fits, TooMany
  <2>2. Growing
    <3> SUFFICES ASSUME NEW e \in 2 .. Now PROVE Members(e - 1) \subseteq Members(e)
      BY DEF Growing
    <3>1. e \in 2 .. Now' /\ e - 1 \in 1 .. Now /\ e \in 1 .. Now
      BY <1>1
    <3>2. Members(e - 1)' \subseteq Members(e)'
      BY <3>1 DEF Growing
    <3> QED  BY <1>5, <3>1, <3>2
  <2>3. Prefix(Fleet, Fleet') /\ fleets'[1] = fleets[1]
    <3>1. Now \in 1 .. Now /\ Now \in 1 .. Now' /\ Now' \in 1 .. Now' /\ 1 \in 1 .. Now
      BY <1>1 DEF ListInv, FleetsOK
    <3>2. Prefix(fleets'[Now], fleets'[Now'])
      BY <3>1 DEF PrefixOK, Prefix
    <3> QED  BY <3>1, <3>2 DEF Fleet
  <2>4. Len(Fleet) \in Nat /\ Len(Fleet') \in Nat
    BY <1>1 DEF ListInv, FleetsOK, Fleet, Now
  <2>5. PICK h \in 0 .. Len(Fleet) :
          /\ lister \in {"idle", "listing"} => h = offset
          /\ lister \in {"waiting", "closed"} => h >= Len(fleets[1])
          /\ \A i \in Ids : Listed(i) = IF \E n \in 1 .. h : Fleet[n] = i THEN 1 ELSE 0
          /\ \E k \in Nat : offset = k * MaxLimit
    BY <2>1, <2>2 DEF ListInv, GatheringOK, Gathered
  <2>6. h \in 0 .. Len(Fleet') /\ \A n \in 1 .. h : Fleet'[n] = Fleet[n]
    BY <2>3, <2>4 DEF Prefix
  <2>7. \A i \in Ids : Listed(i)' = IF \E n \in 1 .. h : Fleet'[n] = i THEN 1 ELSE 0
    BY <1>3, <2>5, <2>6
  <2> QED  BY <2>3, <2>5, <2>6, <2>7 DEF Gathered
<1> QED  BY <1>2, <1>4, <1>6, <1>7, <1>8, <1>9 DEF ListInv

\* The pages that are saved stay pages of former fleets.
LEMMA FilesKeep ==
  ASSUME FleetsOK, FilesOK, UNCHANGED file,
         Now' >= Now, Now' \in Nat, \A e \in 1 .. Now : fleets'[e] = fleets[e]
  PROVE  FilesOK'
<1>1. Now \in Nat
  BY DEF FleetsOK, Now
<1>2. ASSUME NEW o \in 0 .. Wrap - 1, file'[o] # None
      PROVE  /\ file'[o].era \in 1 .. Now'
             /\ file'[o].page = Cut(fleets'[file'[o].era], o)
  <2>1. file[o].era \in 1 .. Now /\ file[o].page = Cut(fleets[file[o].era], o)
    BY <1>2 DEF FilesOK
  <2>2. file'[o] = file[o]
    OBVIOUS
  <2>3. fleets'[file[o].era] = fleets[file[o].era]
    BY <2>1
  <2> QED  BY <1>1, <2>1, <2>2, <2>3
<1> QED  BY <1>2 DEF FilesOK, Cut

\* A page that is saved under its own offset is one more of them.
LEMMA FilesSave ==
  ASSUME FleetsOK, FilesOK, UNCHANGED fleets, NEW o \in 0 .. Wrap - 1,
         file' = [file EXCEPT ![o] = Answer(o)]
  PROVE  FilesOK'
<1>1. Now \in 1 .. Now /\ Now' = Now
  BY DEF FleetsOK, Now
<1>2. Answer(o).era = Now /\ Answer(o).page = Cut(fleets[Now], o)
  BY DEF Answer, Page, Cut, Fleet
<1>3. \A e, q : Cut(fleets'[e], q) = Cut(fleets[e], q)
  OBVIOUS
<1>4. DOMAIN file' = 0 .. Wrap - 1 /\ file'[o] = Answer(o)
  BY DEF FilesOK
<1>5. \A q \in 0 .. Wrap - 1 : q # o => file'[q] = file[q]
  BY DEF FilesOK
<1>6. ASSUME NEW q \in 0 .. Wrap - 1, file'[q] # None
      PROVE  file'[q].era \in 1 .. Now /\ file'[q].page = Cut(fleets[file'[q].era], q)
  <2>1. CASE q = o
    BY <1>1, <1>2, <1>4, <2>1
  <2>2. CASE q # o
    BY <1>5, <1>6, <2>2 DEF FilesOK
  <2> QED  BY <2>1, <2>2
<1> QED  BY <1>1, <1>4, <1>6 DEF FilesOK

\* An instance that is created was never there, and nothing comes twice by a removal;
\* the new fleet continues the one before or lacks an instance of it.
LEMMA ChangeIsFleet ==
  ASSUME FleetsOK, Grow \/ Shrink
  PROVE  \E g \in Seq(Ids) :
           /\ Distinct(g) /\ fleets' = Append(fleets, g)
           /\ Prefix(Fleet, g) \/ \E k \in DOMAIN Fleet : \A n \in DOMAIN g : g[n] # Fleet[k]
<1> DEFINE f == Fleet
<1>1. f \in Seq(Ids) /\ Distinct(f) /\ Now \in 1 .. Now
  BY DEF FleetsOK, Fleet, Now
<1> HIDE DEF f
<1>2. ASSUME NEW i \in Ids, {j \in Ids : j < i} = UNION {Members(e) : e \in 1 .. Now}
      PROVE  Append(f, i) \in Seq(Ids) /\ Distinct(Append(f, i)) /\ Prefix(f, Append(f, i))
  <2>1. i \in Nat
    BY ListAssumption DEF Ids
  <2>2. \A n \in DOMAIN f : f[n] # i
    <3>1. ASSUME NEW n \in DOMAIN f PROVE f[n] \in UNION {Members(e) : e \in 1 .. Now}
      BY <1>1 DEF Members, f, Fleet
    <3>2. i \notin {j \in Ids : j < i}
      BY <2>1
    <3> QED  BY <1>2, <3>1, <3>2
  <2>3. /\ Append(f, i) \in Seq(Ids) /\ Len(Append(f, i)) = Len(f) + 1
        /\ \A n \in 1 .. Len(f) : Append(f, i)[n] = f[n]
        /\ Append(f, i)[Len(f) + 1] = i
    BY <1>1, AppendProperties
  <2>4. DOMAIN f = 1 .. Len(f) /\ DOMAIN Append(f, i) = 1 .. Len(f) + 1 /\ Len(f) \in Nat
    BY <1>1, <2>3
  <2>5. Distinct(Append(f, i))
    BY <1>1, <2>2, <2>3, <2>4 DEF Distinct
  <2> QED  BY <2>3, <2>4, <2>5 DEF Prefix
<1>3. ASSUME NEW k \in DOMAIN f
      PROVE  LET g == SubSeq(f, 1, k - 1) \o SubSeq(f, k + 1, Len(f))
             IN  g \in Seq(Ids) /\ Distinct(g) /\ \A n \in DOMAIN g : g[n] # f[k]
  <2> DEFINE a == SubSeq(f, 1, k - 1)
             b == SubSeq(f, k + 1, Len(f))
  <2>1. Len(f) \in Nat /\ DOMAIN f = 1 .. Len(f) /\ \A n \in 1 .. Len(f) : f[n] \in Ids
    BY <1>1
  <2>2. a \in Seq(Ids) /\ Len(a) = k - 1 /\ \A n \in 1 .. k - 1 : a[n] = f[n]
    <3>1. \A n \in 1 .. k - 1 : f[n] \in Ids
      BY <2>1
    <3>2. /\ SubSeq(f, 1, k - 1) \in Seq(Ids)
          /\ Len(SubSeq(f, 1, k - 1)) = IF 1 <= k - 1 THEN k - 1 - 1 + 1 ELSE 0
          /\ \A n \in 1 .. k - 1 - 1 + 1 : SubSeq(f, 1, k - 1)[n] = f[1 + n - 1]
      BY <2>1, <3>1, SubSeqProperties
    <3> QED  BY <2>1, <3>2
  <2>3. b \in Seq(Ids) /\ Len(b) = Len(f) - k /\ \A n \in 1 .. Len(f) - k : b[n] = f[k + n]
    <3>1. \A n \in k + 1 .. Len(f) : f[n] \in Ids
      BY <2>1
    <3>2. /\ SubSeq(f, k + 1, Len(f)) \in Seq(Ids)
          /\ Len(SubSeq(f, k + 1, Len(f))) = IF k + 1 <= Len(f) THEN Len(f) - (k + 1) + 1 ELSE 0
          /\ \A n \in 1 .. Len(f) - (k + 1) + 1 : SubSeq(f, k + 1, Len(f))[n] = f[k + 1 + n - 1]
      BY <2>1, <3>1, SubSeqProperties
    <3> QED  BY <2>1, <3>2
  <2> HIDE DEF a, b
  <2>4. /\ a \o b \in Seq(Ids) /\ Len(a \o b) = Len(f) - 1
        /\ \A n \in 1 .. Len(f) - 1 : (a \o b)[n] = IF n <= k - 1 THEN f[n] ELSE f[n + 1]
    <3>1. /\ a \o b \in Seq(Ids)
          /\ Len(a \o b) = Len(a) + Len(b)
          /\ \A n \in 1 .. Len(a) + Len(b) : (a \o b)[n] = IF n <= Len(a) THEN a[n] ELSE b[n - Len(a)]
      BY <2>2, <2>3, ConcatProperties
    <3>2. ASSUME NEW n \in 1 .. Len(f) - 1
          PROVE  (a \o b)[n] = IF n <= k - 1 THEN f[n] ELSE f[n + 1]
      <4>1. CASE n <= k - 1
        BY <2>1, <2>2, <2>3, <3>1, <4>1
      <4>2. CASE ~(n <= k - 1)
        <5>1. n - (k - 1) \in 1 .. Len(f) - k /\ k + (n - (k - 1)) = n + 1
          BY <2>1, <4>2
        <5>2. b[n - (k - 1)] = f[n + 1]
          BY <2>3, <5>1
        <5> QED  BY <2>1, <2>2, <2>3, <3>1, <4>2, <5>2
      <4> QED  BY <4>1, <4>2
    <3> QED  BY <2>1, <2>2, <2>3, <3>1, <3>2
  <2> DEFINE h == a \o b
             Old(n) == IF n <= k - 1 THEN n ELSE n + 1
  <2>5. DOMAIN h = 1 .. Len(f) - 1
    <3>1. h \in Seq(Ids) /\ Len(h) = Len(f) - 1
      BY <2>4
    <3> HIDE DEF h
    <3>2. DOMAIN h = 1 .. Len(h)
      BY <3>1
    <3> QED  BY <3>1, <3>2
  <2>6. ASSUME NEW n \in 1 .. Len(f) - 1
        PROVE  Old(n) \in DOMAIN f /\ Old(n) # k /\ h[n] = f[Old(n)]
    BY <2>1, <2>4
  <2>7. ASSUME NEW m \in 1 .. Len(f) - 1, NEW n \in 1 .. Len(f) - 1, Old(m) = Old(n)
        PROVE  m = n
    BY <2>1, <2>7
  <2> HIDE DEF h, Old
  <2>8. ASSUME NEW m \in 1 .. Len(f) - 1, NEW n \in 1 .. Len(f) - 1, h[m] = h[n]
        PROVE  m = n
    <3>1. Old(m) = Old(n)
      BY <1>1, <2>6, <2>8 DEF Distinct
    <3> QED  BY <2>7, <3>1
  <2>9. Distinct(h)
    BY <2>5, <2>8 DEF Distinct
  <2>10. \A n \in DOMAIN h : h[n] # f[k]
    BY <1>1, <2>5, <2>6 DEF Distinct
  <2> QED  BY <2>4, <2>9, <2>10 DEF a, b, h
<1>4. CASE Grow
  <2>1. PICK i \in Ids :
          /\ {j \in Ids : j < i} = UNION {Members(e) : e \in 1 .. Now}
          /\ fleets' = Append(fleets, Append(f, i))
    BY <1>4 DEF Grow, f
  <2> QED  BY <1>2, <2>1 DEF f
<1>5. CASE Shrink
  <2>1. PICK k \in DOMAIN f :
          fleets' = Append(fleets, SubSeq(f, 1, k - 1) \o SubSeq(f, k + 1, Len(f)))
    BY <1>5 DEF Shrink, f
  <2> QED  BY <1>3, <2>1 DEF f
<1> QED  BY <1>4, <1>5

\* The account and other runs change nothing that was listed.
LEMMA AroundStep ==
  ListInv /\ Around => ListInv'
<1> SUFFICES ASSUME ListInv, Around PROVE ListInv'
  OBVIOUS
<1>1. FleetsOK /\ FilesOK /\ Now \in Nat
  BY DEF ListInv, FleetsOK, Now
<1>2. UNCHANGED <<noCache, began, eras, offset, lister, senders, buf, got>>
  BY DEF Around, Grow, Shrink, Expire, OtherRun, Matters
<1>3. CASE Grow \/ Shrink
  <2>1. PICK g \in Seq(Ids) :
          /\ Distinct(g) /\ fleets' = Append(fleets, g)
          /\ Prefix(Fleet, g) \/ \E k \in DOMAIN Fleet : \A n \in DOMAIN g : g[n] # Fleet[k]
    BY <1>1, <1>3, ChangeIsFleet
  <2>2. /\ FleetsOK' /\ Now' = Now + 1 /\ \A e \in 1 .. Now : fleets'[e] = fleets[e]
        /\ fleets'[Now + 1] = g
    BY <1>1, <2>1, NewFleet
  <2>3. FilesOK'
    BY <1>1, <1>3, <2>2, FilesKeep DEF Grow, Shrink
  <2>4. Now' >= Now
    BY <1>1, <2>2
  <2>5. PrefixOK'
    BY <1>1, <2>1, <2>2, NewPrefix DEF ListInv
  <2> QED  BY <1>2, <2>2, <2>3, <2>4, <2>5, FleetStep
<1>4. CASE Expire \/ OtherRun
  <2>1. UNCHANGED fleets /\ Now' = Now /\ FleetsOK'
    BY <1>1, <1>4 DEF Expire, OtherRun, FleetsOK, Now, Distinct
  <2>2. ASSUME Expire PROVE FilesOK'
    <3>1. PICK o \in DOMAIN file : file' = [file EXCEPT ![o] = None]
      BY <2>2 DEF Expire
    <3>2. DOMAIN file' = 0 .. Wrap - 1 /\ \A q \in 0 .. Wrap - 1 : file'[q] # None => file'[q] = file[q]
      BY <1>1, <3>1 DEF FilesOK
    <3>3. \A e, q : Cut(fleets'[e], q) = Cut(fleets[e], q)
      BY <2>1
    <3> QED  BY <1>1, <2>1, <3>2, <3>3 DEF FilesOK
  <2>3. ASSUME OtherRun PROVE FilesOK'
    <3>1. PICK n \in 0 .. Wrap : n * MaxLimit < Wrap /\ file' = [file EXCEPT ![n * MaxLimit] = Answer(n * MaxLimit)]
      BY <2>3 DEF OtherRun
    <3>2. n * MaxLimit \in 0 .. Wrap - 1
      BY <3>1, ListAssumption
    <3> QED  BY <1>1, <2>1, <3>1, <3>2, FilesSave
  <2>4. FilesOK'
    BY <1>4, <2>2, <2>3
  <2>5. Now' >= Now /\ \A e \in 1 .. Now : fleets'[e] = fleets[e]
    BY <1>1, <2>1
  <2>6. PrefixOK'
    BY <2>1, SameFleets DEF ListInv
  <2> QED  BY <1>2, <2>1, <2>4, <2>5, <2>6, FleetStep
<1> QED  BY <1>3, <1>4 DEF Around

-----------------------------------------------------------------------------
(***************************************************************************)
(* The listing goroutine, the senders and the reader                       *)
(***************************************************************************)

\* Where a fleet that fits has a page, its offset does not wrap.
LEMMA OffsetFits ==
  ASSUME NEW k \in Nat, k * MaxLimit < TooMany
  PROVE  k * MaxLimit < Wrap
<1> DEFINE q == (Wrap + MaxLimit - 1) \div MaxLimit
<1>1. MaxLimit \in Nat /\ MaxLimit > 0 /\ Wrap \in Nat
  BY ListAssumption
<1>2. q \in Nat /\ q * MaxLimit <= Wrap + MaxLimit - 1
  BY <1>1
<1>3. k * MaxLimit < q * MaxLimit
  BY DEF TooMany
<1> HIDE DEF q
<1>4. k < q
  <2> SUFFICES ASSUME k >= q PROVE FALSE
    BY <1>2
  <2>1. k - q \in Nat
    BY <1>2
  <2>2. (k - q) * MaxLimit >= 0
    BY <1>1, <2>1
  <2>3. (k - q) * MaxLimit = k * MaxLimit - q * MaxLimit
    BY <1>1, <1>2
  <2> QED  BY <1>1, <1>2, <1>3, <2>2, <2>3
<1>5. q - 1 - k \in Nat /\ (q - 1 - k) * MaxLimit >= 0
  BY <1>1, <1>2, <1>4
<1>6. (q - 1 - k) * MaxLimit = q * MaxLimit - MaxLimit - k * MaxLimit
  BY <1>1, <1>2
<1> QED  BY <1>1, <1>2, <1>5, <1>6

\* A step by which no instance is listed or forgotten.
LEMMA QuietStep ==
  ASSUME ListInv, RestOK', Outside, UNCHANGED <<eras, offset>>,
         \/ lister' = lister
         \/ lister = "listing" /\ lister' = "failed"
         \/ lister = "waiting" /\ lister' = "closed",
         \A i \in Ids : Listed(i)' = Listed(i)
  PROVE  ListInv'
<1>1. FleetsOK' /\ FilesOK'
  BY DEF ListInv, FleetsOK, FilesOK, Outside, Now, Distinct, Cut
<1>2. NothingYet'
  BY DEF ListInv, NothingYet
<1>3. \A e : Members(e)' = Members(e) /\ Now' = Now
  BY DEF Outside, Members, Now
<1>4. NoCacheIsFresh'
  BY <1>3 DEF ListInv, NoCacheIsFresh, Outside
<1>5. ReadingOK'
  <2> SUFFICES ASSUME Fits', NEW e \in 1 .. Now', eras' = {e} PROVE Reading(e)'
    BY DEF ReadingOK
  <2>1. Fits
    BY DEF Fits, Outside, TooMany
  <2>2. Reading(e)
    BY <1>3, <2>1 DEF ListInv, ReadingOK
  <2>3. Read(e)' = Read(e)
    BY DEF Read, Outside
  <2> QED  BY <2>2, <2>3 DEF Reading, Outside
<1>6. CoveringOK'
  <2> SUFFICES ASSUME NEW e \in 1 .. Now', eras' = {e} PROVE Covering(e)'
    BY DEF CoveringOK
  <2>1. Covering(e) /\ \A n \in DOMAIN fleets[e] : fleets[e][n] \in Ids
    BY <1>3 DEF ListInv, CoveringOK, FleetsOK, Now
  <2> QED  BY <2>1 DEF Covering, Outside
<1>7. PrefixOK'
  BY SameFleets DEF ListInv, Outside
<1>8. GatheringOK'
  <2>1. (Fits' => Fits) /\ (Growing' => Growing) /\ Fleet' = Fleet
    BY SameFleets DEF Outside
  <2> QED  BY <2>1 DEF ListInv, GatheringOK, Gathered, Outside
<1> QED  BY <1>1, <1>2, <1>4, <1>5, <1>6, <1>7, <1>8 DEF ListInv

\* When the program is started nothing was listed.
LEMMA BeginStep ==
  ListInv /\ Begin => ListInv'
<1> SUFFICES ASSUME ListInv, Begin PROVE ListInv'
  OBVIOUS
<1>1. FleetsOK' /\ FilesOK' /\ Now' = Now /\ Now \in 1 .. Now
  <2>1. fleets' = fleets /\ file' = file /\ FleetsOK /\ FilesOK
    BY DEF ListInv, Begin
  <2>2. FleetsOK' /\ Now' = Now /\ Now \in 1 .. Now
    BY <2>1 DEF FleetsOK, Now, Distinct
  <2>3. \A e, o : Cut(fleets'[e], o) = Cut(fleets[e], o)
    BY <2>1
  <2> QED  BY <2>1, <2>2, <2>3 DEF FilesOK, Cut
<1>2. eras = {} /\ eras' = {} /\ offset' = 0 /\ \A i \in Ids : Listed(i)' = 0
  BY DEF ListInv, RestOK, NothingYet, Begin, Listed
<1>3. RestOK'
  BY <1>1 DEF ListInv, RestOK, Begin
<1>4. NothingYet' /\ ReadingOK' /\ CoveringOK' /\ NoCacheIsFresh'
  BY <1>2 DEF NothingYet, ReadingOK, CoveringOK, NoCacheIsFresh
<1>5. PrefixOK'
  BY SameFleets DEF ListInv, Begin
<1>6. Gathered'
  <2>1. Len(Fleet') \in Nat
    BY <1>1 DEF FleetsOK, Fleet, Now
  <2>2. 0 \in 0 .. Len(Fleet') /\ 0 = 0 * MaxLimit /\ lister' = "listing"
    BY <2>1, ListAssumption DEF Begin
  <2>3. \A i \in Ids : Listed(i)' = IF \E n \in 1 .. 0 : Fleet'[n] = i THEN 1 ELSE 0
    BY <1>2
  <2> QED  BY <1>2, <2>2, <2>3 DEF Gathered
<1> QED  BY <1>1, <1>3, <1>4, <1>5, <1>6 DEF ListInv, GatheringOK

\* Send and Receive move an instance on, the others leave them where they are.
LEMMA MoveStep ==
  ListInv /\ (ListFails \/ CloseChan \/ Over \/ \E i \in Ids : Send(i) \/ Receive(i)) => ListInv'
<1> USE DEF ListInv, RestOK
<1>1. ASSUME ListInv, ListFails \/ CloseChan PROVE ListInv'
  <2>1. RestOK'
    BY <1>1 DEF ListFails, CloseChan, Outside, Now
  <2>2. \A i \in Ids : Listed(i)' = Listed(i)
    BY <1>1 DEF ListFails, CloseChan, Listed
  <2> QED  BY <1>1, <2>1, <2>2, QuietStep DEF ListFails, CloseChan
<1>2. ASSUME ListInv, Over PROVE ListInv'
  <2>1. RestOK' /\ Outside
    BY <1>2 DEF Over, listVars, cloudVars, Outside, Now
  <2>2. \A i \in Ids : Listed(i)' = Listed(i)
    BY <1>2 DEF Over, listVars, Listed
  <2> QED  BY <1>2, <2>1, <2>2, QuietStep DEF Over, listVars
<1>3. ASSUME ListInv, NEW i \in Ids, Send(i) PROVE ListInv'
  <2>1. i \in Nat /\ i # None
    BY ListAssumption DEF Ids
  <2>2. RestOK'
    BY <1>3, <2>1 DEF Send, Outside, Now
  <2>3. ASSUME NEW j \in Ids PROVE Listed(j)' = Listed(j)
    <3>1. senders'[j] = IF j = i THEN senders[j] - 1 ELSE senders[j]
      BY <1>3 DEF Send
    <3>2. j # None /\ senders[j] \in Nat /\ got[j] \in Nat
      BY <1>3, ListAssumption DEF Ids
    <3> QED  BY <1>3, <2>1, <3>1, <3>2 DEF Send, Listed
  <2> QED  BY <1>3, <2>2, <2>3, QuietStep DEF Send
<1>4. ASSUME ListInv, NEW i \in Ids, Receive(i) PROVE ListInv'
  <2>1. i \in Nat /\ i # None
    BY ListAssumption DEF Ids
  <2>2. RestOK'
    BY <1>4, <2>1 DEF Receive, Outside, Now
  <2>3. ASSUME NEW j \in Ids PROVE Listed(j)' = Listed(j)
    <3>1. got'[j] = IF j = i THEN got[j] + 1 ELSE got[j]
      BY <1>4 DEF Receive
    <3>2. j # None /\ senders[j] \in Nat /\ got[j] \in Nat
      BY <1>4, ListAssumption DEF Ids
    <3> QED  BY <1>4, <2>1, <3>1, <3>2 DEF Receive, Listed
  <2> QED  BY <1>4, <2>2, <2>3, QuietStep DEF Receive
<1> QED  BY <1>1, <1>2, <1>3, <1>4

\* What a page of fleet e adds to the part of it that was read.
LEMMA PageAdds ==
  ASSUME NEW f \in Seq(Ids), Distinct(f), NEW o \in Nat, o <= Len(f), NEW i,
         NEW before \in Nat, before = IF \E n \in 1 .. o : f[n] = i THEN 1 ELSE 0
  PROVE  before + Count(Cut(f, o), i) =
           IF \E n \in 1 .. o + Len(Cut(f, o)) : f[n] = i THEN 1 ELSE 0
<1> DEFINE l == Len(Cut(f, o))
<1>1. l \in Nat /\ o + l <= Len(f)
  BY PageParts, ListAssumption
<1>2. Count(Cut(f, o), i) = IF \E n \in 1 .. l : f[o + n] = i THEN 1 ELSE 0
  BY PageCounts
<1> HIDE DEF l
<1>3. ASSUME NEW m \in 1 .. o, f[m] = i, NEW n \in 1 .. l, f[o + n] = i PROVE FALSE
  <2>1. m \in DOMAIN f /\ o + n \in DOMAIN f /\ m # o + n
    BY <1>1
  <2> QED  BY <1>3, <2>1 DEF Distinct
<1>4. (\E n \in 1 .. o + l : f[n] = i) <=> (\E n \in 1 .. o : f[n] = i) \/ (\E n \in 1 .. l : f[o + n] = i)
  <2>1. ASSUME NEW n \in 1 .. o + l, f[n] = i
        PROVE  (\E m \in 1 .. o : f[m] = i) \/ (\E m \in 1 .. l : f[o + m] = i)
    <3>1. CASE n <= o
      BY <2>1, <3>1
    <3>2. CASE ~(n <= o)
      <4>1. n - o \in 1 .. l /\ o + (n - o) = n
        BY <1>1, <3>2
      <4> QED  BY <2>1, <4>1
    <3> QED  BY <3>1, <3>2
  <2>2. ASSUME NEW n \in 1 .. o, f[n] = i PROVE \E m \in 1 .. o + l : f[m] = i
    BY <1>1, <2>2
  <2>3. ASSUME NEW n \in 1 .. l, f[o + n] = i PROVE \E m \in 1 .. o + l : f[m] = i
    <3>1. o + n \in 1 .. o + l
      BY <1>1
    <3> QED  BY <2>3, <3>1
  <2> QED  BY <2>1, <2>2, <2>3
<1> QED  BY <1>2, <1>3, <1>4 DEF l

\* A page, from its file or from the API.
LEMMA PageStep ==
  ASSUME ListInv, FilesOK', NEW answer, Process(answer),
         answer.era \in 1 .. Now, answer.page = Cut(fleets[answer.era], offset),
         noCache => answer.era = Now
  PROVE  ListInv'
<1> DEFINE a == answer.era
           f == fleets[a]
           l == Len(answer.page)
<1>1. /\ lister = "listing" /\ eras' = eras \cup {a}
      /\ fleets' = fleets /\ noCache' = noCache /\ began' = began /\ buf' = buf /\ got' = got
      /\ senders' = [i \in Ids |-> senders[i] + Count(answer.page, i)]
      /\ IF l # MaxLimit THEN lister' = "waiting" /\ offset' = offset
                         ELSE offset' = (offset + MaxLimit) % Wrap /\ lister' = lister
  BY DEF Process, Turn, Full, Count
<1>2. /\ f \in Seq(Ids) /\ Distinct(f) /\ offset \in Nat /\ offset < Wrap
      /\ MaxLimit \in Nat /\ MaxLimit > 0 /\ Wrap \in Nat /\ Now \in Nat /\ Now' = Now
      /\ Wrap > 0 /\ began \in 1 .. Now
  BY <1>1, ListAssumption DEF ListInv, FleetsOK, RestOK, Now
<1>3. /\ answer.page \in Seq(Ids)
      /\ l \in Nat
      /\ offset <= Len(f) => l = IF offset + MaxLimit < Len(f) THEN MaxLimit ELSE Len(f) - offset
      /\ \A n \in 1 .. l : offset + n \in 1 .. Len(f) /\ answer.page[n] = f[offset + n]
  <2> HIDE DEF f
  <2>1. answer.page = Cut(f, offset)
    BY DEF f
  <2>2. /\ Cut(f, offset) \in Seq(Ids)
        /\ offset <= Len(f) =>
             Len(Cut(f, offset)) = IF offset + MaxLimit < Len(f) THEN MaxLimit ELSE Len(f) - offset
        /\ \A n \in 1 .. Len(Cut(f, offset)) : offset + n \in 1 .. Len(f) /\ Cut(f, offset)[n] = f[offset + n]
    BY <1>2, PageParts
  <2>3. Len(Cut(f, offset)) \in Nat
    BY <2>2
  <2> QED  BY <2>1, <2>2, <2>3
<1> HIDE DEF a, f, l
<1>4. \A i : Count(answer.page, i) \in Nat
  BY <1>3, CountProperties
<1>5. senders' \in [Ids -> Nat]
  BY <1>1, <1>4 DEF ListInv, RestOK
<1>6. \A i \in Ids : Listed(i) \in Nat /\ Listed(i)' = Listed(i) + Count(answer.page, i)
  <2> SUFFICES ASSUME NEW i \in Ids
               PROVE  Listed(i) \in Nat /\ Listed(i)' = Listed(i) + Count(answer.page, i)
    OBVIOUS
  <2>1. senders[i] \in Nat /\ got[i] \in Nat /\ Count(answer.page, i) \in Nat
    BY <1>4 DEF ListInv, RestOK
  <2>2. senders'[i] = senders[i] + Count(answer.page, i)
    BY <1>1
  <2> QED  BY <1>1, <2>1, <2>2 DEF Listed
<1>7. RestOK'
  <2>1. offset' \in 0 .. Wrap - 1
    BY <1>1, <1>2 DEF ListInv, RestOK
  <2>2. lister' \in {"listing", "waiting"}
    BY <1>1
  <2> QED  BY <1>1, <1>2, <1>5, <2>1, <2>2 DEF ListInv, RestOK, a
<1>8. NothingYet' /\ FleetsOK'
  BY <1>1, <1>2 DEF ListInv, NothingYet, FleetsOK, Now, Distinct
<1>9. NoCacheIsFresh'
  <2> SUFFICES ASSUME noCache, NEW i \in Ids, Listed(i)' > 0
               PROVE  \E e \in began .. Now : i \in Members(e)
    BY <1>1, <1>2 DEF NoCacheIsFresh, Members
  <2>1. CASE Listed(i) > 0
    BY <2>1 DEF ListInv, NoCacheIsFresh
  <2>2. CASE ~(Listed(i) > 0)
    <3>1. Count(answer.page, i) # 0
      BY <1>4, <1>6, <2>2
    <3>2. PICK n \in DOMAIN answer.page : answer.page[n] = i
      BY <1>3, <3>1, CountProperties
    <3>3. n \in 1 .. l
      BY <1>3 DEF l
    <3>4. f[offset + n] = i /\ offset + n \in DOMAIN f
      BY <1>2, <1>3, <3>2, <3>3
    <3>5. Now \in began .. Now /\ f = fleets[Now]
      BY <1>2 DEF f, a
    <3> QED  BY <3>4, <3>5 DEF Members
  <2> QED  BY <2>1, <2>2
<1>10. ReadingOK'
  <2> SUFFICES ASSUME Fits', NEW e \in 1 .. Now', eras' = {e} PROVE Reading(e)'
    BY DEF ReadingOK
  <2>1. e = a /\ (eras = {} \/ eras = {e}) /\ fleets[e] = f /\ Fits
    BY <1>1 DEF Fits, TooMany, f
  <2>2. /\ \E k \in Nat : offset = k * MaxLimit
        /\ offset <= Len(f)
        /\ \A i \in Ids : Listed(i) = IF \E n \in 1 .. offset : f[n] = i THEN 1 ELSE 0
    <3>1. CASE eras = {}
      <4>1. offset = 0 /\ \A i \in Ids : Listed(i) = 0
        BY <3>1 DEF ListInv, NothingYet
      <4>2. 0 = 0 * MaxLimit
        BY <1>2
      <4> QED  BY <1>2, <4>1, <4>2
    <3>2. CASE eras = {e}
      <4>1. Reading(e)
        BY <1>2, <2>1, <3>2 DEF ListInv, ReadingOK
      <4>2. offset <= Len(f)
        BY <1>1, <2>1, <4>1 DEF Reading
      <4>3. \A i \in Ids : i \in Read(e) <=> \E n \in 1 .. offset : f[n] = i
        BY <1>1, <1>2, <2>1, <4>2 DEF Read
      <4> QED  BY <4>1, <4>2, <4>3 DEF Reading
    <3> QED  BY <2>1, <3>1, <3>2
  <2>3. offset + l <= Len(f)
    BY <1>2, <1>3, <2>2
  <2>4. \A i \in Ids : Listed(i)' = IF \E n \in 1 .. offset + l : f[n] = i THEN 1 ELSE 0
    <3> SUFFICES ASSUME NEW i \in Ids
                 PROVE  Listed(i)' = IF \E n \in 1 .. offset + l : f[n] = i THEN 1 ELSE 0
      OBVIOUS
    <3>1. answer.page = Cut(f, offset) /\ l = Len(Cut(f, offset))
      BY DEF f, a, l
    <3>2. Listed(i) + Count(Cut(f, offset), i) = IF \E n \in 1 .. offset + Len(Cut(f, offset)) : f[n] = i THEN 1 ELSE 0
      <4> DEFINE b == Listed(i)
      <4>1. b \in Nat /\ b = IF \E n \in 1 .. offset : f[n] = i THEN 1 ELSE 0
        BY <1>6, <2>2
      <4>2. f \in Seq(Ids) /\ Distinct(f) /\ offset \in Nat /\ offset <= Len(f)
        BY <1>2, <2>2
      <4> HIDE DEF b
      <4>3. b + Count(Cut(f, offset), i) = IF \E n \in 1 .. offset + Len(Cut(f, offset)) : f[n] = i THEN 1 ELSE 0
        BY <4>1, <4>2, PageAdds
      <4> QED  BY <4>3 DEF b
    <3> QED  BY <1>6, <3>1, <3>2
  <2>5. CASE l = MaxLimit
    <3>1. offset + MaxLimit < TooMany
      <4>1. Len(f) < TooMany /\ TooMany \in Nat
        <5>1. a \in DOMAIN fleets /\ f = fleets[a]
          BY DEF Now, ListInv, FleetsOK, a, f
        <5>2. TooMany \in Nat
          BY <1>2 DEF TooMany
        <5> QED  BY <2>1, <5>1, <5>2 DEF Fits
      <4> QED  BY <1>2, <2>3, <2>5, <4>1
    <3>2. PICK k \in Nat : offset = k * MaxLimit
      BY <2>2
    <3>3. k + 1 \in Nat /\ (k + 1) * MaxLimit = offset + MaxLimit
      BY <1>2, <3>2
    <3>4. offset + MaxLimit < Wrap
      BY <3>1, <3>3, OffsetFits
    <3>5. offset' = offset + MaxLimit /\ lister' = "listing"
      BY <1>1, <1>2, <2>5, <3>4
    <3>6. \A i \in Ids : i \in Read(e)' <=> \E n \in 1 .. offset + MaxLimit : f[n] = i
      BY <1>1, <1>2, <2>1, <2>3, <2>5, <3>5 DEF Read
    <3>7. \A i \in Ids : Listed(i)' = IF i \in Read(e)' THEN 1 ELSE 0
      BY <2>4, <2>5, <3>6
    <3>8. \E j \in Nat : offset' = j * MaxLimit
      BY <3>3, <3>5
    <3>9. offset' <= Len(fleets'[e])
      BY <1>1, <2>1, <2>3, <2>5, <3>5
    <3> QED  BY <3>7, <3>8, <3>9 DEF Reading
  <2>6. CASE l # MaxLimit
    <3>1. offset + l = Len(f) /\ lister' = "waiting" /\ offset' = offset
      BY <1>1, <1>2, <1>3, <2>2, <2>6
    <3>2. \A i \in Ids : i \in Read(e)' <=> \E n \in 1 .. Len(f) : f[n] = i
      BY <1>1, <1>2, <2>1, <3>1 DEF Read
    <3>3. \A i \in Ids : Listed(i)' = IF i \in Read(e)' THEN 1 ELSE 0
      BY <2>4, <3>1, <3>2
    <3> QED  BY <2>2, <3>1, <3>3 DEF Reading
  <2> QED  BY <2>5, <2>6
<1>11. CoveringOK'
  <2> SUFFICES ASSUME NEW e \in 1 .. Now', eras' = {e} PROVE Covering(e)'
    BY DEF CoveringOK
  <2>1. e = a /\ (eras = {} \/ eras = {e}) /\ fleets[e] = f /\ fleets'[e] = f
    BY <1>1 DEF f
  <2>2. PICK h \in Nat : offset <= h /\ \A n \in DOMAIN f : n <= h => Listed(f[n]) > 0
    <3>1. CASE eras = {}
      <4>1. offset = 0 /\ \A n \in DOMAIN f : ~(n <= 0)
        BY <1>2, <3>1 DEF ListInv, NothingYet
      <4> QED  BY <4>1
    <3>2. CASE eras = {e}
      BY <1>2, <2>1, <3>2 DEF ListInv, CoveringOK, Covering
    <3> QED  BY <2>1, <3>1, <3>2
  <2>3. ASSUME NEW n \in DOMAIN f, n <= h \/ n <= offset + l, NEW i \in Ids, f[n] = i
        PROVE  Listed(i)' > 0
    <3>1. DOMAIN f = 1 .. Len(f) /\ Len(f) \in Nat /\ Count(answer.page, i) \in Nat
      BY <1>2, <1>4
    <3>2. CASE n <= h
      <4>1. Listed(i) > 0
        BY <2>2, <2>3, <3>2
      <4> QED  BY <1>6, <3>1, <4>1
    <3>3. CASE ~(n <= h)
      <4>1. n - offset \in 1 .. l /\ offset + (n - offset) = n
        <5>1. n \in Nat /\ h \in Nat /\ offset < n /\ n <= offset + l
          BY <1>2, <2>2, <2>3, <3>1, <3>3
        <5> QED  BY <1>2, <1>3, <5>1
      <4>2. answer.page = Cut(f, offset) /\ l = Len(Cut(f, offset))
        BY DEF f, a, l
      <4>3. \E m \in 1 .. l : f[offset + m] = i
        BY <2>3, <4>1
      <4>4. Count(Cut(f, offset), i) = 1
        BY <1>2, <4>2, <4>3, PageCounts
      <4>5. Listed(i) \in Nat /\ Listed(i)' = Listed(i) + 1
        BY <1>6, <4>2, <4>4
      <4> QED  BY <4>5
    <3> QED  BY <3>2, <3>3
  <2>4. ASSUME NEW k \in Nat, offset' <= k,
               \A n \in 1 .. Len(f) : n <= k \/ lister' \in {"waiting", "closed"} => n <= h \/ n <= offset + l
        PROVE  Covering(e)'
    <3>1. DOMAIN fleets'[e] = 1 .. Len(f) /\ DOMAIN f = 1 .. Len(f) /\ fleets'[e] = f
      BY <1>2, <2>1
    <3>2. ASSUME NEW n \in 1 .. Len(f), n <= k \/ lister' \in {"waiting", "closed"}
          PROVE  \A i \in Ids : fleets'[e][n] = i => Listed(i)' > 0
      BY <2>3, <2>4, <3>1, <3>2
    <3>3. \A n \in 1 .. Len(f) : fleets'[e][n] \in Ids
      BY <1>2, <3>1
    <3> QED  BY <2>4, <3>1, <3>2, <3>3 DEF Covering, Listed
  <2>5. CASE l = MaxLimit
    <3>1. lister' = "listing" /\ offset' <= offset + l /\ offset' \in Nat /\ offset + l \in Nat
      BY <1>1, <1>2, <2>5
    <3>2. CASE h <= offset + l
      <4>1. \A n \in 1 .. Len(f) : n <= offset + l \/ lister' \in {"waiting", "closed"} => n <= h \/ n <= offset + l
        BY <3>1
      <4> QED  BY <2>4, <3>1, <4>1
    <3>3. CASE ~(h <= offset + l)
      <4>1. offset' <= h
        BY <1>2, <1>3, <3>1, <3>3
      <4>2. \A n \in 1 .. Len(f) : n <= h \/ lister' \in {"waiting", "closed"} => n <= h \/ n <= offset + l
        BY <3>1
      <4> QED  BY <2>4, <4>1, <4>2
    <3> QED  BY <3>2, <3>3
  <2>6. CASE l # MaxLimit
    <3>1. offset' = offset /\ lister' = "waiting"
      BY <1>1, <2>6
    <3>2. \A n \in 1 .. Len(f) : n <= h \/ n <= offset + l
      BY <1>2, <1>3, <2>2, <2>6
    <3>3. \A n \in 1 .. Len(f) : n <= h \/ lister' \in {"waiting", "closed"} => n <= h \/ n <= offset + l
      BY <3>2
    <3> QED  BY <2>2, <2>4, <3>1, <3>3
  <2> QED  BY <2>5, <2>6
<1>12. PrefixOK'
  BY <1>1, SameFleets DEF ListInv
<1>13. GatheringOK'
  <2> SUFFICES ASSUME Fits', Growing' PROVE Gathered'
    BY DEF GatheringOK
  <2>1. Fits /\ Growing /\ Fleet' = Fleet /\ fleets'[1] = fleets[1]
    BY <1>1, SameFleets
  <2>2. /\ offset \in 0 .. Len(Fleet)
        /\ \A i \in Ids : Listed(i) = IF \E n \in 1 .. offset : Fleet[n] = i THEN 1 ELSE 0
        /\ \E k \in Nat : offset = k * MaxLimit
    BY <1>1, <2>1 DEF ListInv, GatheringOK, Gathered
  <2>3. 1 \in 1 .. Now /\ Now \in 1 .. Now /\ a \in 1 .. Now /\ f = fleets[a] /\ Fleet = fleets[Now]
    BY <1>2 DEF a, f, Fleet
  <2>4. Prefix(f, Fleet) /\ Len(fleets[1]) <= Len(f) /\ Len(fleets[1]) \in Nat /\ Len(Fleet) \in Nat
    <3>1. Prefix(f, Fleet) /\ Prefix(fleets[1], f)
      BY <1>2, <2>1, <2>3 DEF ListInv, PrefixOK
    <3> QED  BY <2>3, <3>1 DEF Prefix, ListInv, FleetsOK, Now
  <2>5. CASE offset > Len(f)
    <3>1. l = 0
      BY <1>2, <1>3, <2>5
    <3>2. \A i \in Ids : Listed(i)' = Listed(i)
      <4> SUFFICES ASSUME NEW i \in Ids PROVE Listed(i)' = Listed(i)
        OBVIOUS
      <4>1. \A n \in DOMAIN answer.page : answer.page[n] # i
        BY <1>3, <3>1 DEF l
      <4>2. Count(answer.page, i) = 0
        BY <1>3, <4>1, CountProperties
      <4> QED  BY <1>6, <4>2
    <3>3. lister' = "waiting" /\ offset' = offset /\ offset >= Len(fleets[1])
      BY <1>1, <1>2, <2>4, <2>5, <3>1
    <3>4. \A i \in Ids : Listed(i)' = IF \E n \in 1 .. offset : Fleet[n] = i THEN 1 ELSE 0
      BY <2>2, <3>2
    <3> QED  BY <2>1, <2>2, <3>3, <3>4 DEF Gathered
  <2>6. CASE ~(offset > Len(f))
    <3> DEFINE h == offset + l
    <3>1. offset <= Len(f) /\ h <= Len(f) /\ h \in 0 .. Len(Fleet)
      BY <1>2, <1>3, <2>4, <2>6 DEF Prefix
    <3>2. ASSUME NEW i \in Ids
          PROVE  Listed(i)' = IF \E n \in 1 .. h : Fleet[n] = i THEN 1 ELSE 0
      <4> DEFINE b == Listed(i)
      <4>1. b \in Nat /\ b = IF \E n \in 1 .. offset : f[n] = i THEN 1 ELSE 0
        <5>1. \A n \in 1 .. offset : f[n] = Fleet[n]
          BY <1>2, <2>4, <3>1 DEF Prefix
        <5>2. (\E n \in 1 .. offset : f[n] = i) <=> (\E n \in 1 .. offset : Fleet[n] = i)
          BY <5>1
        <5> QED  BY <1>6, <2>2, <5>2
      <4>2. f \in Seq(Ids) /\ Distinct(f) /\ offset \in Nat /\ offset <= Len(f)
        BY <1>2, <3>1
      <4> HIDE DEF b
      <4>3. b + Count(Cut(f, offset), i) = IF \E n \in 1 .. offset + Len(Cut(f, offset)) : f[n] = i THEN 1 ELSE 0
        BY <4>1, <4>2, PageAdds
      <4>4. answer.page = Cut(f, offset) /\ l = Len(Cut(f, offset))
        BY DEF f, a, l
      <4>5. (\E n \in 1 .. h : f[n] = i) <=> (\E n \in 1 .. h : Fleet[n] = i)
        <5>1. h \in Nat /\ h <= Len(f) /\ Len(f) \in Nat
          BY <1>2, <1>3, <3>1
        <5> HIDE DEF h
        <5>2. \A n \in 1 .. h : f[n] = Fleet[n]
          BY <2>4, <5>1 DEF Prefix
        <5> QED  BY <5>2
      <4> QED  BY <1>6, <4>3, <4>4, <4>5 DEF b
    <3>3. CASE l = MaxLimit
      <4>1. offset + MaxLimit < TooMany
        <5>1. Len(f) < TooMany /\ TooMany \in Nat
          <6>1. a \in DOMAIN fleets
            BY <2>3 DEF Now, ListInv, FleetsOK
          <6>2. TooMany \in Nat
            BY <1>2 DEF TooMany
          <6> QED  BY <2>1, <2>3, <6>1, <6>2 DEF Fits
        <5> QED  BY <1>2, <3>1, <3>3, <5>1
      <4>2. PICK k \in Nat : offset = k * MaxLimit
        BY <2>2
      <4>3. k + 1 \in Nat /\ (k + 1) * MaxLimit = offset + MaxLimit
        BY <1>2, <4>2
      <4>4. offset + MaxLimit < Wrap
        BY <4>1, <4>3, OffsetFits
      <4>5. offset' = h /\ lister' = "listing" /\ \E j \in Nat : offset' = j * MaxLimit
        <5>1. (offset + MaxLimit) % Wrap = offset + MaxLimit
          BY <1>2, <4>4
        <5>2. offset' = offset + MaxLimit /\ lister' = "listing" /\ h = offset + MaxLimit
          BY <1>1, <3>3, <5>1
        <5> QED  BY <4>3, <5>2
      <4> HIDE DEF h
      <4> QED  BY <2>1, <3>1, <3>2, <4>5 DEF Gathered
    <3>4. CASE l # MaxLimit
      <4>1. h = Len(f) /\ h >= Len(fleets[1]) /\ lister' = "waiting" /\ offset' = offset
        BY <1>1, <1>2, <1>3, <2>4, <3>1, <3>4
      <4> HIDE DEF h
      <4> QED  BY <2>1, <2>2, <3>1, <3>2, <4>1 DEF Gathered
    <3> QED  BY <3>3, <3>4
  <2> QED  BY <2>5, <2>6
<1> QED  BY <1>7, <1>8, <1>9, <1>10, <1>11, <1>12, <1>13 DEF ListInv

\* A page from its file is one of a former fleet.
LEMMA LoadPageStep ==
  ListInv /\ LoadPage => ListInv'
<1> SUFFICES ASSUME ListInv, LoadPage PROVE ListInv'
  OBVIOUS
<1>1. Process(file[offset]) /\ ~noCache /\ file[offset] # None /\ offset \in 0 .. Wrap - 1
  BY DEF LoadPage, FromFile, ListInv, RestOK
<1>2. file[offset].era \in 1 .. Now /\ file[offset].page = Cut(fleets[file[offset].era], offset)
  BY <1>1 DEF ListInv, FilesOK
<1>3. FilesOK'
  BY <1>1 DEF LoadPage, Process, Turn, ListInv, FilesOK, Now, Cut
<1> QED  BY <1>1, <1>2, <1>3, PageStep

\* A page from the API is one of the present fleet, and so is what is saved of it.
LEMMA AskPageStep ==
  ListInv /\ AskPage => ListInv'
<1> SUFFICES ASSUME ListInv, AskPage PROVE ListInv'
  OBVIOUS
<1>1. /\ Process(Answer(offset)) /\ fleets' = fleets /\ offset \in 0 .. Wrap - 1
      /\ FleetsOK /\ FilesOK /\ Now \in 1 .. Now
  BY DEF AskPage, Process, Turn, ListInv, RestOK, FleetsOK, Now
<1>2. Answer(offset).era = Now /\ Answer(offset).page = Cut(fleets[Now], offset)
  BY DEF Answer, Page, Cut, Fleet
<1>3. FilesOK'
  <2>1. CASE file' = file
    BY <1>1, <2>1 DEF FilesOK, Now, Cut
  <2>2. CASE file' = [file EXCEPT ![offset] = Answer(offset)]
    BY <1>1, <2>2, FilesSave
  <2> QED  BY <2>1, <2>2 DEF AskPage
<1> QED  BY <1>1, <1>2, <1>3, PageStep

-----------------------------------------------------------------------------
(***************************************************************************)
(* The theorems                                                            *)
(***************************************************************************)

\* Every step preserves the invariant.
LEMMA NextInv ==
  ListInv /\ [Next]_listVars => ListInv'
<1> SUFFICES ASSUME ListInv, [Next]_listVars PROVE ListInv'
  OBVIOUS
<1>1. ASSUME UNCHANGED listVars PROVE ListInv'
  <2>1. RestOK' /\ Outside
    BY <1>1 DEF ListInv, RestOK, listVars, cloudVars, Outside, Now
  <2>2. \A i \in Ids : Listed(i)' = Listed(i)
    BY <1>1 DEF listVars, Listed
  <2> QED  BY <1>1, <2>1, <2>2, QuietStep DEF listVars
<1> QED  BY <1>1, AroundStep, BeginStep, MoveStep, LoadPageStep, AskPageStep DEF Next, ListStep

\* The invariant always holds.
LEMMA AlwaysListInv ==
  Spec => []ListInv
<1> QED  BY InitInv, NextInv, PTL DEF Spec

\* Type correctness: the offset never leaves its unsigned width, and a saved page is
\* never longer than a page of the API (instances.go:38-61, 71-103).
THEOREM ListTypeCorrect == Spec => []TypeOK
<1>1. ListInv => TypeOK
  <2> SUFFICES ASSUME ListInv PROVE TypeOK
    OBVIOUS
  <2>1. \A e \in DOMAIN fleets : fleets[e] \in Seq(Ids)
    BY DEF ListInv, FleetsOK
  <2>2. ASSUME NEW o \in DOMAIN file, file[o] # None
        PROVE  file[o].era \in 1 .. Now /\ Len(file[o].page) <= MaxLimit
    <3>1. o \in Nat /\ file[o].era \in 1 .. Now /\ file[o].page = Cut(fleets[file[o].era], o)
      BY <2>2, ListAssumption DEF ListInv, FilesOK
    <3>2. fleets[file[o].era] \in Seq(Ids)
      BY <3>1 DEF ListInv, FleetsOK, Now
    <3> QED  BY <3>1, <3>2, PageParts
  <2> QED  BY <2>1, <2>2 DEF ListInv, RestOK, TypeOK
<1> QED  BY <1>1, AlwaysListInv, PTL

\* With --no-cache what is listed was there when the program was started or later
\* (README.md:219, instances.go:38-61).
THEOREM NoCacheMeansFresh == Spec => []NoCacheIsFresh
<1>1. ListInv => NoCacheIsFresh
  BY DEF ListInv
<1> QED  BY <1>1, AlwaysListInv, PTL

\* As long as the pages are all of one fleet, an instance of it is offered once if its
\* page was read and not at all otherwise, whatever the width of the offset and the
\* size of a page (instances.go:71-103).
THEOREM ListedExactlyOnce == Spec => []ListedOnce
<1>1. ListInv => ListedOnce
  BY DEF ListInv, FleetsOK, ReadingOK, Reading, ListedOnce, Now
<1> QED  BY <1>1, AlwaysListInv, PTL

\* When the reader's loop ends it has received every instance of the fleet its pages
\* are of, for every size of the fleet, of a page and of the offset, whatever the
\* offset has wrapped to on the way (instances.go:99-105).
THEOREM WrappingMissesNothing == Spec => []NothingMissed
<1>1. ListInv => NothingMissed
  <2> SUFFICES ASSUME ListInv, Exhausted, NEW e \in DOMAIN fleets, eras = {e}, NEW i \in Members(e)
               PROVE  got[i] > 0
    BY DEF NothingMissed
  <2>1. e \in 1 .. Now /\ Covering(e)
    BY DEF ListInv, FleetsOK, CoveringOK, Now
  <2>2. PICK n \in DOMAIN fleets[e] : fleets[e][n] = i
    BY DEF Members
  <2>3. i \in Ids /\ i # None
    BY <2>1, <2>2, ListAssumption DEF ListInv, FleetsOK, Now, Ids
  <2>4. Listed(i) > 0
    BY <2>1, <2>2 DEF Covering, Exhausted
  <2>5. senders[i] = 0 /\ got[i] \in Nat /\ buf # i
    BY <2>3 DEF ListInv, RestOK, Exhausted
  <2> QED  BY <2>4, <2>5 DEF Listed
<1> QED  BY <1>1, AlwaysListInv, PTL

\* What the invariant says of an account that only grows.
LEMMA GrowingLists ==
  ListInv => GrowthIsHarmless
<1> SUFFICES ASSUME ListInv, Fits, Growing
             PROVE  /\ \A i \in Ids : Listed(i) <= 1
                    /\ Exhausted => \A i \in Members(1) : got[i] = 1
  BY DEF GrowthIsHarmless, Growing
<1>1. PICK h \in 0 .. Len(Fleet) :
        /\ lister \in {"waiting", "closed"} => h >= Len(fleets[1])
        /\ \A i \in Ids : Listed(i) = IF \E n \in 1 .. h : Fleet[n] = i THEN 1 ELSE 0
  BY DEF ListInv, GatheringOK, Gathered
<1>2. ASSUME Exhausted, NEW i \in Members(1) PROVE got[i] = 1
  <2>1. PICK n \in DOMAIN fleets[1] : fleets[1][n] = i
    BY DEF Members
  <2>2. 1 \in 1 .. Now /\ Now \in 1 .. Now /\ fleets[1] \in Seq(Ids) /\ Fleet \in Seq(Ids)
    BY DEF ListInv, FleetsOK, Now, Fleet
  <2>3. Prefix(fleets[1], Fleet)
    BY <2>2 DEF ListInv, PrefixOK, Fleet
  <2>4. n \in 1 .. h /\ Fleet[n] = i
    BY <1>1, <1>2, <2>1, <2>2, <2>3 DEF Prefix, Exhausted
  <2>5. i \in Ids /\ i # None
    BY <2>1, <2>2, ListAssumption DEF Ids
  <2>6. Listed(i) = 1
    BY <1>1, <2>4, <2>5
  <2>7. senders[i] = 0 /\ got[i] \in Nat /\ buf # i
    BY <1>2, <2>5 DEF ListInv, RestOK, Exhausted
  <2> QED  BY <2>6, <2>7 DEF Listed
<1> QED  BY <1>1, <1>2

\* As long as no instance is removed, pages of any age fit together: nothing is listed
\* twice, and what was there from the beginning is listed (instances.go:38-61, 71-103).
THEOREM GrowthLosesNothing == Spec => []GrowthIsHarmless
<1> QED  BY GrowingLists, AlwaysListInv, PTL
=============================================================================
