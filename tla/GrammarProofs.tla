----------------------------- MODULE GrammarProofs -----------------------------
(***************************************************************************)
(* The words of an option file and of a command line as a grammar: that    *)
(* the recursion of EndOf defines where the options end, that Getopt takes *)
(* them by this grammar, and that options alone, in front of a command     *)
(* line, leave its operands as they are.                                   *)
(***************************************************************************)
EXTENDS CommandLineProofs

-----------------------------------------------------------------------------
(***************************************************************************)
(* Where the options end                                                   *)
(***************************************************************************)

\* What holds of a place if it holds of all that follow holds of every place.
LEMMA FromTheLast ==
  ASSUME NEW N \in Nat, NEW S,
         \A n \in 1 .. N : (\A m \in n + 1 .. N : m \in S) => n \in S
  PROVE  \A n \in 1 .. N : n \in S
<1> DEFINE Bad == {n \in 1 .. N : n \notin S}
<1> SUFFICES ASSUME Bad # {} PROVE FALSE
  OBVIOUS
<1>1. PICK b \in Bad : \A y \in Bad : b >= y
  <2>1. Bad \subseteq 1 .. N
    OBVIOUS
  <2> HIDE DEF Bad
  <2> QED  BY <2>1, MaxIsIn
<1>2. \A m \in b + 1 .. N : m \in S
  BY <1>1
<1> QED  BY <1>1, <1>2

\* How many words an option that stands in w takes, and where the words w is one of end.
Width(w) == IF w \in DOMAIN Clusters /\ Last(Clusters[w]) \in Arguments THEN 2 ELSE 1
IsOption(w) == w \in DOMAIN Clusters \cup DOMAIN Longs

\* The equation of the recursive function in EndOf.
EndsAre(ws, end) ==
  end = [n \in 1 .. Len(ws) + 2 |->
           IF n <= Len(ws) /\ ws[n] \in DOMAIN Clusters \cup DOMAIN Longs
           THEN end[n + Width(ws[n])] ELSE n]

\* Ends(ws)[n]: where the options end that begin at place n of ws.
Ends(ws) == CHOOSE end : EndsAre(ws, end)

LEMMA WidthIs ==
  \A w : Width(w) \in {1, 2}
BY DEF Width

\* The recursion of EndOf defines a function.
LEMMA EndsExist ==
  ASSUME NEW ws, Len(ws) \in Nat
  PROVE  \E end : EndsAre(ws, end)
<1> DEFINE L == Len(ws) + 2
           Opt(n) == n <= Len(ws) /\ IsOption(ws[n])
           Part(m, f) == \A n \in m .. L : f[n] = IF Opt(n) THEN f[n + Width(ws[n])] ELSE n
           S == {m \in 1 .. L : \E f \in [m .. L -> Nat] : Part(m, f)}
<1>1. ASSUME NEW n \in 1 .. L, \A m \in n + 1 .. L : m \in S
      PROVE  n \in S
  <2>1. PICK f \in [n + 1 .. L -> Nat] : Part(n + 1, f)
    <3>1. CASE n = L
      <4>1. [m \in n + 1 .. L |-> m] \in [n + 1 .. L -> Nat] /\ n + 1 .. L = {}
        BY <3>1
      <4> QED  BY <4>1
    <3>2. CASE n # L
      BY <3>2, <1>1
    <3> QED  BY <3>1, <3>2
  <2> DEFINE g == [m \in n .. L |-> IF m > n THEN f[m]
                                    ELSE IF Opt(n) THEN f[n + Width(ws[n])] ELSE n]
  <2>2. Opt(n) => n + Width(ws[n]) \in n + 1 .. L
    BY WidthIs
  <2>3. g \in [n .. L -> Nat]
    BY <2>1, <2>2
  <2>4. ASSUME NEW m \in n .. L
        PROVE  g[m] = IF Opt(m) THEN g[m + Width(ws[m])] ELSE m
    <3>1. Opt(m) => m + Width(ws[m]) \in n + 1 .. L
      BY WidthIs
    <3>2. \A k \in n + 1 .. L : g[k] = f[k]
      OBVIOUS
    <3>3. CASE m = n
      BY <3>1, <3>2, <3>3
    <3>4. CASE m # n
      <4>1. m \in n + 1 .. L /\ g[m] = f[m]
        BY <3>4
      <4> QED  BY <2>1, <3>1, <3>2, <4>1
    <3> QED  BY <3>3, <3>4
  <2> HIDE DEF g
  <2> QED  BY <2>3, <2>4
<1>2. 1 \in S
  <2> HIDE DEF S
  <2>1. L \in Nat /\ 1 \in 1 .. L
    OBVIOUS
  <2> HIDE DEF L
  <2> QED  BY <1>1, <2>1, FromTheLast
<1>3. PICK f \in [1 .. L -> Nat] : Part(1, f)
  BY <1>2
<1>4. EndsAre(ws, f)
  BY <1>3 DEF EndsAre, IsOption
<1> QED  BY <1>4

\* So it has the values its definition says.
LEMMA EndsEquation ==
  ASSUME NEW ws, Len(ws) \in Nat
  PROVE  /\ EndOf(ws) = Ends(ws)[1]
         /\ \A n \in 1 .. Len(ws) + 2 :
              Ends(ws)[n] = IF n <= Len(ws) /\ IsOption(ws[n])
                            THEN Ends(ws)[n + Width(ws[n])] ELSE n
<1>1. EndsAre(ws, Ends(ws))
  BY EndsExist DEF Ends
<1>2. EndOf(ws) = Ends(ws)[1]
  BY Zenon DEF EndOf, EndsAre, Ends, Width
<1>3. ASSUME NEW n \in 1 .. Len(ws) + 2
      PROVE  Ends(ws)[n] = IF n <= Len(ws) /\ IsOption(ws[n])
                            THEN Ends(ws)[n + Width(ws[n])] ELSE n
  <2> DEFINE e == Ends(ws)
  <2>1. EndsAre(ws, e)
    BY <1>1
  <2> HIDE DEF e
  <2>2. e[n] = [m \in 1 .. Len(ws) + 2 |->
                  IF m <= Len(ws) /\ ws[m] \in DOMAIN Clusters \cup DOMAIN Longs
                  THEN e[m + Width(ws[m])] ELSE m][n]
    BY <2>1, Zenon DEF EndsAre
  <2>3. e[n] = IF n <= Len(ws) /\ IsOption(ws[n]) THEN e[n + Width(ws[n])] ELSE n
    BY <2>2 DEF IsOption
  <2> QED  BY <2>3 DEF e
<1> QED  BY <1>2, <1>3

\* No option ends before it begins, nor more than one word after the last one.
LEMMA EndsBound ==
  ASSUME NEW ws, Len(ws) \in Nat
  PROVE  \A n \in 1 .. Len(ws) + 2 : Ends(ws)[n] \in n .. Len(ws) + 2
<1> DEFINE L == Len(ws) + 2
           S == {n \in 1 .. L : Ends(ws)[n] \in n .. L}
<1>1. ASSUME NEW n \in 1 .. L, \A m \in n + 1 .. L : m \in S
      PROVE  n \in S
  <2>1. CASE n <= Len(ws) /\ IsOption(ws[n])
    <3>1. n + Width(ws[n]) \in n + 1 .. L
      BY <2>1, WidthIs
    <3>2. Ends(ws)[n] = Ends(ws)[n + Width(ws[n])]
      BY <2>1, EndsEquation
    <3> QED  BY <1>1, <3>1, <3>2
  <2>2. CASE ~(n <= Len(ws) /\ IsOption(ws[n]))
    BY <2>2, EndsEquation
  <2> QED  BY <2>1, <2>2
<1> HIDE DEF S
<1>2. \A n \in 1 .. L : n \in S
  <2>1. L \in Nat
    OBVIOUS
  <2> HIDE DEF L
  <2> QED  BY <1>1, <2>1, FromTheLast
<1> QED  BY <1>2 DEF S

\* If the options of f end where f does, those of f \o l end where those of l do.
LEMMA EndsJoin ==
  ASSUME NEW f \in Seq(Words), NEW l \in Seq(Words), EndOf(f) = Len(f) + 1
  PROVE  EndOf(f \o l) = Len(f) + EndOf(l)
<1> DEFINE w == f \o l
           F == Len(f)
           G == Len(l)
<1>1. /\ F \in Nat /\ G \in Nat /\ Len(w) = F + G
      /\ \A n \in 1 .. F : w[n] = f[n]
      /\ \A n \in 1 .. G : w[F + n] = l[n]
  OBVIOUS
<1> HIDE DEF w, F, G
<1>2. \A n \in 1 .. G + 2 : Ends(w)[F + n] = F + Ends(l)[n]
  <2> DEFINE L == G + 2
             S == {n \in 1 .. L : Ends(w)[F + n] = F + Ends(l)[n]}
  <2>1. ASSUME NEW n \in 1 .. L, \A m \in n + 1 .. L : m \in S
        PROVE  n \in S
    <3>1. /\ Ends(l)[n] = IF n <= G /\ IsOption(l[n]) THEN Ends(l)[n + Width(l[n])] ELSE n
          /\ F + n \in 1 .. Len(w) + 2
          /\ Ends(w)[F + n] = IF F + n <= Len(w) /\ IsOption(w[F + n])
                              THEN Ends(w)[F + n + Width(w[F + n])] ELSE F + n
      <4>1. Len(w) \in Nat /\ F + n \in 1 .. Len(w) + 2
        BY <1>1
      <4>2. Len(l) \in Nat /\ n \in 1 .. Len(l) + 2
        BY <1>1 DEF G
      <4> QED  BY <4>1, <4>2, EndsEquation DEF G
    <3>2. CASE n <= G /\ IsOption(l[n])
      <4>1. PICK d \in {1, 2} : d = Width(l[n])
        BY WidthIs
      <4>2. n + d \in n + 1 .. L /\ F + (n + d) = F + n + d
        BY <1>1, <3>2
      <4>3. w[F + n] = l[n] /\ F + n <= Len(w)
        BY <1>1, <3>2
      <4>4. Ends(l)[n] = Ends(l)[n + d] /\ Ends(w)[F + n] = Ends(w)[F + n + d]
        BY <3>1, <3>2, <4>1, <4>3
      <4>5. n + d \in S
        BY <2>1, <4>2
      <4> QED  BY <4>2, <4>4, <4>5
    <3>3. CASE ~(n <= G /\ IsOption(l[n]))
      <4>1. ~(F + n <= Len(w) /\ IsOption(w[F + n]))
        BY <1>1, <3>3
      <4> QED  BY <3>1, <3>3, <4>1
    <3> QED  BY <3>2, <3>3
  <2> HIDE DEF S
  <2>2. \A n \in 1 .. L : n \in S
    <3>1. L \in Nat
      BY <1>1
    <3> HIDE DEF L
    <3> QED  BY <2>1, <3>1, FromTheLast
  <2> QED  BY <2>2 DEF S
<1>3. \A n \in 1 .. F + 1 : Ends(f)[n] = F + 1 => Ends(w)[n] = Ends(w)[F + 1]
  <2> DEFINE L == F + 1
             S == {n \in 1 .. L : Ends(f)[n] = F + 1 => Ends(w)[n] = Ends(w)[F + 1]}
  <2>1. ASSUME NEW n \in 1 .. L, \A m \in n + 1 .. L : m \in S
        PROVE  n \in S
    <3> SUFFICES ASSUME Ends(f)[n] = F + 1, n # F + 1 PROVE Ends(w)[n] = Ends(w)[F + 1]
      OBVIOUS
    <3>1. n \in 1 .. F + 2 /\ n \in 1 .. Len(w) + 2 /\ Len(w) \in Nat /\ Len(f) \in Nat /\ n <= F
      BY <1>1 DEF F
    <3>2. /\ Ends(f)[n] = IF n <= F /\ IsOption(f[n]) THEN Ends(f)[n + Width(f[n])] ELSE n
          /\ Ends(w)[n] = IF n <= Len(w) /\ IsOption(w[n]) THEN Ends(w)[n + Width(w[n])] ELSE n
      BY <3>1, EndsEquation DEF F
    <3>3. IsOption(f[n])
      BY <3>1, <3>2
    <3>4. w[n] = f[n] /\ n <= Len(w)
      BY <1>1, <3>1
    <3>5. PICK d \in {1, 2} : d = Width(f[n])
      BY WidthIs
    <3>6. Ends(f)[n + d] = F + 1 /\ Ends(w)[n] = Ends(w)[n + d]
      BY <3>1, <3>2, <3>3, <3>4, <3>5
    <3>7. n + d <= F + 1
      <4> SUFFICES ASSUME n + d = F + 2 PROVE FALSE
        BY <1>1, <3>1
      <4>1. F + 2 \in 1 .. Len(f) + 2 /\ Len(f) \in Nat
        BY <1>1 DEF F
      <4>2. Ends(f)[F + 2] = F + 2
        BY <4>1, <1>1, EndsEquation DEF F
      <4> QED  BY <4>2, <3>6, <1>1
    <3>8. n + d \in S
      BY <1>1, <2>1, <3>7
    <3> QED  BY <3>6, <3>8
  <2> HIDE DEF S
  <2>2. \A n \in 1 .. L : n \in S
    <3>1. L \in Nat
      BY <1>1
    <3> HIDE DEF L
    <3> QED  BY <2>1, <3>1, FromTheLast
  <2> QED  BY <2>2 DEF S
<1>4. EndOf(f) = Ends(f)[1] /\ EndOf(l) = Ends(l)[1] /\ EndOf(w) = Ends(w)[1]
  BY <1>1, EndsEquation DEF F, G
<1>5. Ends(w)[1] = Ends(w)[F + 1]
  BY <1>1, <1>3, <1>4 DEF F
<1>6. Ends(w)[F + 1] = F + Ends(l)[1]
  BY <1>1, <1>2
<1> QED  BY <1>4, <1>5, <1>6 DEF w, F

\* And the operands of l are those of f \o l.
LEMMA OperandsJoin ==
  ASSUME NEW f \in Seq(Words), NEW l \in Seq(Words), EndOf(f) = Len(f) + 1
  PROVE  Operands(f \o l) = Operands(l)
<1>1. PICK w, F, G, e : w = f \o l /\ F = Len(f) /\ G = Len(l) /\ e = EndOf(l)
  OBVIOUS
<1>2. /\ F \in Nat /\ G \in Nat /\ Len(w) = F + G /\ w \in Seq(Words)
      /\ \A n \in 1 .. G : w[F + n] = l[n]
  BY <1>1
<1>3. e \in 1 .. G + 2 /\ EndOf(w) = F + e
  <2>1. EndOf(l) = Ends(l)[1] /\ Ends(l)[1] \in 1 .. G + 2
    BY <1>1, <1>2, EndsEquation, EndsBound
  <2> QED  BY <1>1, <2>1, EndsJoin
<1>4. PICK d \in {0, 1} : d = IF e <= G /\ l[e] = "--" THEN 1 ELSE 0
  OBVIOUS
<1>5. d = IF EndOf(w) <= Len(w) /\ w[EndOf(w)] = "--" THEN 1 ELSE 0
  BY <1>2, <1>3, <1>4
<1>6. Operands(w) = SubSeq(w, F + e + d, F + G) /\ Operands(l) = SubSeq(l, e + d, G)
  BY <1>1, <1>2, <1>3, <1>4, <1>5 DEF Operands
<1>7. SubSeq(w, F + e + d, F + G) = SubSeq(l, e + d, G)
  <2>1. CASE e + d <= G
    <3>1. /\ F + e + d \in Len(f) + 1 .. Len(f) + Len(l)
          /\ F + G \in Len(f) + 1 .. Len(f) + Len(l)
          /\ (F + e + d) - Len(f) = e + d /\ (F + G) - Len(f) = G
      BY <1>1, <1>2, <1>3, <1>4, <2>1
    <3>2. SubSeq(f \o l, F + e + d, F + G) = SubSeq(l, (F + e + d) - Len(f), (F + G) - Len(f))
      BY <3>1, SubSeqOfConcat2
    <3> QED  BY <1>1, <3>1, <3>2
  <2>2. CASE e + d > G
    <3>1. /\ F + e + d \in Int /\ F + G \in Int /\ F + G < F + e + d
          /\ e + d \in Int /\ G \in Int /\ G < e + d
      BY <1>1, <1>2, <1>3, <1>4, <2>2
    <3> QED  BY <3>1, SubSeqEmpty
  <2>3. e + d <= G \/ e + d > G
    BY <1>1, <1>2, <1>3, <1>4
  <2> QED  BY <2>1, <2>2, <2>3
<1> QED  BY <1>1, <1>6, <1>7

-----------------------------------------------------------------------------
(***************************************************************************)
(* Getopt follows the grammar                                              *)
(***************************************************************************)

\* The words rest begin at place k of ws, behind the cluster of which more is left: that
\* is where the options go on.
GoesOn(ws, k, rest, more) ==
  /\ rest = SubSeq(ws, k, Len(ws))
  /\ EndOf(ws) = Ends(ws)[IF more # <<>> /\ Last(more) \in Arguments THEN k + 1 ELSE k]

Follows(ws, rest, more) ==
  more \in Seq(STRING) /\ \E k \in 1 .. Len(ws) + 1 : GoesOn(ws, k, rest, more)

\* While Getopt is called it has taken a part of the words, by the grammar, and what is
\* left in the end are the operands.
PlaceInv ==
  /\ phase = "options" => Follows(AllWords, args, sopts)
  /\ phase \notin {"file", "options"} \cup Ended => args = Operands(AllWords)

LEMMA AllWordsAre ==
  ASSUME given \in Invocations
  PROVE  AllWords \in Seq(Words) /\ Len(AllWords) \in Nat
<1>1. given.file \in Seq(Words) /\ given.line \in Seq(Words)
  BY CommandLineAssumption
<1>2. AllWords \in Seq(Words)
  BY <1>1 DEF AllWords
<1> QED  BY <1>2

\* One option of a cluster is taken, and the next word if it is its argument.
LEMMA ShortFollows ==
  ASSUME NEW ws \in Seq(Words), NEW k \in 1 .. Len(ws) + 1, NEW rest,
         NEW cluster \in Seq(STRING), cluster # <<>>, GoesOn(ws, k, rest, cluster),
         NEW r, r = GetoptShort(cluster, rest), r.option # "error"
  PROVE  r.option # "end" /\ Follows(ws, r.args, r.sopts)
<1> DEFINE o == Head(cluster)
<1>1. /\ rest = SubSeq(ws, k, Len(ws)) /\ Len(ws) \in Nat
      /\ EndOf(ws) = Ends(ws)[IF Last(cluster) \in Arguments THEN k + 1 ELSE k]
  BY DEF GoesOn
<1>2. Len(cluster) = 1 => Last(cluster) = o
  BY DEF Last
<1>3. CASE o \in Switches
  <2>1. r = Found(o, NoArgument, rest, Tail(cluster))
    BY <1>3, Classes DEF GetoptShort
  <2>2. r.option = o /\ r.args = rest /\ r.sopts = Tail(cluster) /\ o # "end"
    BY <1>3, <2>1 DEF Found, Switches
  <2>3. Tail(cluster) \in Seq(STRING) /\ Len(Tail(cluster)) = Len(cluster) - 1
    OBVIOUS
  <2>4. GoesOn(ws, k, rest, Tail(cluster))
    <3>1. CASE Tail(cluster) = <<>>
      <4>1. Len(cluster) = 1
        <5>1. Len(<<>>) = 0 /\ Len(cluster) \in Nat
          OBVIOUS
        <5>2. Len(Tail(cluster)) = Len(<<>>)
          BY <3>1, Zenon
        <5>3. Len(cluster) - 1 = 0
          BY <2>3, <5>1, <5>2, Zenon
        <5> QED  BY <5>1, <5>3
      <4>2. Last(cluster) \notin Arguments
        BY <1>2, <1>3, <4>1, Classes
      <4> QED  BY <1>1, <3>1, <4>2 DEF GoesOn
    <3>2. CASE Tail(cluster) # <<>>
      <4>1. Last(Tail(cluster)) = Last(cluster)
        BY <3>2 DEF Last
      <4> QED  BY <1>1, <3>2, <4>1 DEF GoesOn
    <3> QED  BY <3>1, <3>2
  <2> QED  BY <2>2, <2>3, <2>4 DEF Follows
<1>4. CASE o \notin Switches
  <2>1. /\ o \in Arguments /\ Len(cluster) = 1 /\ rest # <<>>
        /\ r = Found(o, Head(rest), Tail(rest), <<>>)
    <3>1. CASE o \in Arguments /\ Len(cluster) = 1 /\ rest # <<>> /\ Head(rest) # "--"
      BY <1>4, <3>1 DEF GetoptShort
    <3>2. CASE ~(o \in Arguments /\ Len(cluster) = 1 /\ rest # <<>> /\ Head(rest) # "--")
      <4>1. r = Found("error", NoArgument, rest, <<>>)
        BY <1>4, <3>2 DEF GetoptShort
      <4> QED  BY <4>1 DEF Found
    <3> QED  BY <3>1, <3>2
  <2>2. r.option = o /\ r.args = Tail(rest) /\ r.sopts = <<>> /\ o # "end"
    BY <2>1 DEF Found, Arguments
  <2>3. k \in 1 .. Len(ws)
    BY <1>1, <2>1, SubSeqEmpty
  <2>4. Tail(rest) = SubSeq(ws, k + 1, Len(ws))
    BY <1>1, <2>3, HeadTailOfSubSeq
  <2>5. EndOf(ws) = Ends(ws)[k + 1]
    BY <1>1, <1>2, <2>1
  <2>6. GoesOn(ws, k + 1, Tail(rest), <<>>) /\ k + 1 \in 1 .. Len(ws) + 1
    BY <2>3, <2>4, <2>5 DEF GoesOn
  <2>7. r.sopts \in Seq(STRING)
    BY <2>2
  <2> QED  BY <2>2, <2>6, <2>7 DEF Follows
<1> QED  BY <1>3, <1>4

\* What Getopt returns from where the options go on.
LEMMA GetoptFollows ==
  ASSUME NEW ws \in Seq(Words), Follows(ws, args, sopts), Getopt.option # "error"
  PROVE  IF Getopt.option = "end" THEN Getopt.args = Operands(ws)
         ELSE Follows(ws, Getopt.args, Getopt.sopts)
<1>1. PICK r : r = Getopt
  OBVIOUS
<1>2. PICK k \in 1 .. Len(ws) + 1 : GoesOn(ws, k, args, sopts)
  BY DEF Follows
<1>3. args = SubSeq(ws, k, Len(ws)) /\ Len(ws) \in Nat
  BY <1>2 DEF GoesOn
<1>4. CASE sopts # <<>>
  <2>1. r = GetoptShort(sopts, args) /\ sopts \in Seq(STRING)
    BY <1>1, <1>4 DEF Getopt, Follows
  <2>2. r.option # "end" /\ Follows(ws, r.args, r.sopts)
    BY <1>1, <1>2, <1>4, <2>1, ShortFollows
  <2> QED  BY <1>1, <2>2
<1>5. CASE sopts = <<>> /\ args = <<>>
  <2>1. r = Found("end", NoArgument, args, <<>>)
    BY <1>1, <1>5 DEF Getopt
  <2>2. r.option = "end" /\ r.args = <<>>
    BY <1>5, <2>1 DEF Found
  <2>3. k = Len(ws) + 1
    <3>1. \A i \in k .. Len(ws) : ws[i] \in Words
      BY <1>3
    <3>2. Len(SubSeq(ws, k, Len(ws))) = IF k <= Len(ws) THEN Len(ws) - k + 1 ELSE 0
      BY <1>3, <3>1, SubSeqProperties
    <3>3. Len(args) = 0
      BY <1>5
    <3> QED  BY <1>3, <3>2, <3>3
  <2>4. Ends(ws)[k] = k
    BY <1>3, <2>3, EndsEquation
  <2>5. EndOf(ws) = Len(ws) + 1
    BY <1>2, <1>5, <2>3, <2>4 DEF GoesOn
  <2>6. Operands(ws) = SubSeq(ws, Len(ws) + 1, Len(ws))
    BY <1>3, <2>5 DEF Operands
  <2>7. Operands(ws) = <<>>
    BY <1>3, <2>6, SubSeqEmpty
  <2> QED  BY <1>1, <2>2, <2>7
<1>6. CASE sopts = <<>> /\ args # <<>>
  <2>1. k \in 1 .. Len(ws)
    BY <1>3, <1>6, SubSeqEmpty
  <2>2. Head(args) = ws[k] /\ Tail(args) = SubSeq(ws, k + 1, Len(ws))
    BY <1>3, <2>1, HeadTailOfSubSeq
  <2>3. EndOf(ws) = Ends(ws)[k]
    BY <1>2, <1>6 DEF GoesOn
  <2>4. Ends(ws)[k] = IF IsOption(ws[k]) THEN Ends(ws)[k + Width(ws[k])] ELSE k
    BY <1>3, <2>1, EndsEquation
  <2>5. k + 1 \in 1 .. Len(ws) + 1
    BY <2>1
  <2>6. CASE ws[k] \in DOMAIN Clusters
    <3>1. PICK cluster : cluster = Clusters[ws[k]]
      OBVIOUS
    <3>2. r = GetoptShort(cluster, Tail(args))
      BY <1>1, <1>6, <2>2, <2>6, <3>1, Classes DEF Getopt
    <3>3. cluster \in Seq(STRING) /\ cluster # <<>>
      BY <2>6, <3>1, CommandLineAssumption
    <3>4. EndOf(ws) = Ends(ws)[IF Last(cluster) \in Arguments THEN (k + 1) + 1 ELSE k + 1]
      BY <2>1, <2>3, <2>4, <2>6, <3>1 DEF IsOption, Width
    <3>5. GoesOn(ws, k + 1, Tail(args), cluster)
      BY <2>2, <3>3, <3>4 DEF GoesOn
    <3>6. r.option # "end" /\ Follows(ws, r.args, r.sopts)
      BY <1>1, <2>5, <3>2, <3>3, <3>5, ShortFollows
    <3> QED  BY <1>1, <3>6
  <2>7. CASE ws[k] \notin DOMAIN Clusters /\ ws[k] \in DOMAIN Longs
    <3>1. PICK long : long = Longs[ws[k]]
      OBVIOUS
    <3>2. r = GetoptLong(long, Tail(args))
      BY <1>1, <1>6, <2>2, <2>7, <3>1, Classes DEF Getopt
    <3>3. r.option \in Switches \cup Arguments /\ r.args = Tail(args) /\ r.sopts = <<>>
      <4>1. CASE long.name \in Switches
        BY <3>2, <4>1, Classes DEF GetoptLong, Found
      <4>2. CASE long.name \notin Switches /\ long.name \in Arguments /\ long.argument # NoArgument
        BY <3>2, <4>2 DEF GetoptLong, Found
      <4>3. CASE long.name \notin Switches /\ ~(long.name \in Arguments /\ long.argument # NoArgument)
        BY <1>1, <3>2, <4>3 DEF GetoptLong, Found
      <4> QED  BY <4>1, <4>2, <4>3
    <3>4. GoesOn(ws, k + 1, Tail(args), <<>>)
      BY <2>2, <2>3, <2>4, <2>7 DEF GoesOn, IsOption, Width
    <3>5. r.option # "end" /\ r.sopts \in Seq(STRING)
      BY <3>3 DEF Switches, Arguments
    <3> QED  BY <1>1, <2>5, <3>3, <3>4, <3>5 DEF Follows
  <2>8. CASE ws[k] \notin DOMAIN Clusters /\ ws[k] \notin DOMAIN Longs
    <3>1. EndOf(ws) = k
      BY <2>3, <2>4, <2>8 DEF IsOption
    <3>2. CASE ws[k] = "--"
      <4>1. r = Found("end", NoArgument, Tail(args), <<>>)
        BY <1>1, <1>6, <2>2, <2>8, <3>2 DEF Getopt
      <4>2. Operands(ws) = SubSeq(ws, k + 1, Len(ws))
        BY <2>1, <3>1, <3>2 DEF Operands
      <4>3. r.option = "end" /\ r.args = Tail(args)
        BY <4>1 DEF Found
      <4> QED  BY <1>1, <2>2, <4>2, <4>3
    <3>3. CASE ws[k] # "--"
      <4>1. r = Found("end", NoArgument, args, <<>>)
        BY <1>1, <1>6, <2>2, <2>8, <3>3 DEF Getopt
      <4>2. Operands(ws) = SubSeq(ws, k, Len(ws))
        BY <2>1, <3>1, <3>3 DEF Operands
      <4>3. r.option = "end" /\ r.args = args
        BY <4>1 DEF Found
      <4> QED  BY <1>1, <1>3, <4>2, <4>3
    <3> QED  BY <3>2, <3>3
  <2> QED  BY <2>6, <2>7, <2>8
<1> QED  BY <1>4, <1>5, <1>6

\* Every step of the set-up keeps to the grammar.
LEMMA PlaceStep ==
  LineInv /\ PlaceInv /\ LineNext => PlaceInv'
<1> SUFFICES ASSUME LineInv, PlaceInv, LineNext PROVE PlaceInv'
  OBVIOUS
<1>1. given \in Invocations /\ AllWords \in Seq(Words) /\ LineTypes
  BY AllWordsAre DEF LineInv, LineTypes
<1>2. CASE ReadOptionFile
  <2>1. /\ phase = "file" /\ phase' = "options" /\ args' = AllWords /\ UNCHANGED <<given, sopts>>
        /\ sopts = <<>> /\ AllWords' = AllWords
    BY <1>2 DEF ReadOptionFile, LineInv, ClusterOK, Ended, AllWords
  <2>2. GoesOn(AllWords, 1, AllWords, <<>>) /\ 1 \in 1 .. Len(AllWords) + 1
    <3>1. Len(AllWords) \in Nat /\ SubSeq(AllWords, 1, Len(AllWords)) = AllWords
      BY <1>1, SubSeqFull
    <3> QED  BY <3>1, EndsEquation DEF GoesOn
  <2>3. <<>> \in Seq(STRING)
    OBVIOUS
  <2> QED  BY <2>1, <2>2, <2>3 DEF PlaceInv, Follows
<1>3. CASE Accepts
  <2>1. /\ phase = "options" /\ phase' = "options" /\ AllWords' = AllWords
        /\ args' = Getopt.args /\ sopts' = Getopt.sopts /\ Getopt.option \notin {"error", "end"}
    <3>1. phase = "options" /\ phase' = "options" /\ UNCHANGED given
      BY <1>1, <1>3, AcceptedOption
    <3>2. args' = Getopt.args /\ sopts' = Getopt.sopts /\ Getopt.option \notin {"error", "end"}
      BY <1>3, Zenon DEF Accepts, TurnOn, SetMode, SetText, SetNumber, AddHost, SetBastion,
         AddMethod, Option, Texts, Quantities
    <3> QED  BY <3>1, <3>2 DEF AllWords
  <2>2. Follows(AllWords, Getopt.args, Getopt.sopts)
    BY <1>1, <2>1, GetoptFollows DEF PlaceInv
  <2> QED  BY <2>1, <2>2 DEF PlaceInv
<1>4. CASE EndOptions
  <2>1. /\ phase = "options" /\ phase' = "split" /\ AllWords' = AllWords
        /\ args' = Getopt.args /\ Getopt.option = "end"
    BY <1>4 DEF EndOptions, Option, AllWords
  <2>2. Getopt.args = Operands(AllWords)
    BY <1>1, <2>1, GetoptFollows DEF PlaceInv
  <2> QED  BY <2>1, <2>2 DEF PlaceInv
<1>5. CASE SplitArgs \/ MakeClients
  <2>1. /\ phase \in {"split", "clients"} /\ phase' \in {"clients", "ready"}
        /\ AllWords' = AllWords /\ UNCHANGED args
    BY <1>5 DEF SplitArgs, MakeClients, AllWords
  <2> QED  BY <2>1 DEF PlaceInv, Ended
<1>6. CASE phase' \in Ended
  BY <1>6 DEF PlaceInv, Ended
<1>7. phase' \in Ended \/ ReadOptionFile \/ Accepts \/ EndOptions \/ SplitArgs \/ MakeClients
  BY DEF LineNext, Parse, Accepts, HelpOrVersion, RefuseOption, RefuseNumber, RefuseBastion,
     RefuseClash, RefuseOptionFile, RefuseArgs, SetupFails, Exit, Ended
<1> QED  BY <1>2, <1>3, <1>4, <1>5, <1>6, <1>7

\* Once the options are over and until the process ends nothing else is done to the words.
LEMMA PlaceStays ==
  ASSUME PlaceInv, UNCHANGED <<given, args>>, phase \notin {"file", "options"} \cup Ended,
         phase' \notin {"file", "options"}
  PROVE  PlaceInv'
<1>1. AllWords' = AllWords
  BY DEF AllWords
<1> QED  BY <1>1 DEF PlaceInv

\* What is left in the end is what the command line alone leaves.
LEMMA PlaceMeansApart ==
  ASSUME LineInv, PlaceInv
  PROVE  FileIsApart
<1> SUFFICES ASSUME phase \in {"split", "clients", "ready"}, EndOf(given.file) = Len(given.file) + 1
             PROVE  args = Operands(given.line)
  BY DEF FileIsApart
<1>1. given.file \in Seq(Words) /\ given.line \in Seq(Words)
  BY CommandLineAssumption DEF LineInv, LineTypes
<1>2. args = Operands(AllWords)
  BY DEF PlaceInv, Ended
<1> QED  BY <1>1, <1>2, OperandsJoin DEF AllWords
=============================================================================
