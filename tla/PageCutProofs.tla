---------------------------- MODULE PageCutProofs ----------------------------
(* What PageCut cuts out of a page, for pages of any length and any pieces.   *)
EXTENDS PageCut, SequenceTheorems, WellFoundedInduction, TLAPS

\* Every set of numbers has a least one.
LEMMA LeastNatural ==
  ASSUME NEW S \in SUBSET Nat, S # {}
  PROVE  \E m \in S : \A n \in S : m <= n
<1> DEFINE R == OpToRel(<, Nat)
<1>1. IsWellFoundedOn(R, Nat)
  BY NatLessThanWellFounded
<1> HIDE DEF R
<1>2. PICK m \in S : \A n \in S : <<n, m>> \notin R
  BY <1>1, WFMin
<1>3. \A n \in S : ~(n < m)
  BY <1>2 DEF R, OpToRel
<1> QED
  BY <1>3

------------------------------------------------------------------------------
(* FlattenSeq: g[i] is f[1] to f[i], one behind the other.                 *)

GlueField(f, g, i) == IF i = 1 THEN f[i] ELSE g[i - 1] \o f[i]
Glue(f, g, n) == g = [i \in 1..n |-> GlueField(f, g, i)]

LEMMA GlueExists ==
  ASSUME NEW f
  PROVE  \A n \in Nat : \E g : Glue(f, g, n)
<1> DEFINE Lacking == {n \in Nat : ~\E g : Glue(f, g, n)}
<1> SUFFICES ASSUME Lacking # {} PROVE FALSE
  OBVIOUS
<1>1. PICK n \in Lacking : \A k \in Lacking : n <= k
  BY LeastNatural
<1>2. n # 0
  <2>1. Glue(f, [i \in 1..0 |-> f], 0)
    BY DEF Glue
  <2> QED
    BY <2>1
<1>3. PICK g : Glue(f, g, n - 1)
  BY <1>1, <1>2
<1> DEFINE longer == [i \in 1..n |-> IF i = n THEN GlueField(f, g, n) ELSE g[i]]
<1>4. ASSUME NEW i \in 1..n PROVE longer[i] = GlueField(f, longer, i)
  <2>1. ASSUME i # 1 PROVE longer[i - 1] = g[i - 1]
    BY <2>1
  <2> HIDE DEF longer
  <2>2. GlueField(f, longer, i) = GlueField(f, g, i)
    BY <2>1 DEF GlueField
  <2>3. CASE i = n
    BY <2>2, <2>3 DEF longer
  <2>4. CASE i # n
    <3>1. i \in 1..(n - 1)
      BY <1>1, <1>2, <2>4
    <3>2. g[i] = GlueField(f, g, i)
      BY <1>3, <3>1 DEF Glue
    <3>3. longer[i] = g[i]
      BY <2>4 DEF longer
    <3> QED
      BY <2>2, <3>2, <3>3
  <2> QED
    BY <2>3, <2>4
<1>5. longer = [i \in 1..n |-> GlueField(f, longer, i)]
  <2>1. longer = [i \in 1..n |-> longer[i]]
    OBVIOUS
  <2> HIDE DEF longer
  <2> QED
    BY <1>4, <2>1
<1> QED
  BY <1>1, <1>5 DEF Glue

LEMMA FlattenIsGlue ==
  ASSUME NEW f, Len(f) \in Nat, Len(f) # 0
  PROVE  \E g : Glue(f, g, Len(f)) /\ FlattenSeq(f) = g[Len(f)]
<1>1. \E g : Glue(f, g, Len(f))
  BY GlueExists
<1> QED
  BY <1>1, Zenon DEF FlattenSeq, Glue, GlueField

\* What is in front of the last element.
LEMMA GlueStep ==
  ASSUME NEW f, NEW g, NEW n \in Nat, Glue(f, g, n), NEW i \in 1..n
  PROVE  g[i] = IF i = 1 THEN f[i] ELSE g[i - 1] \o f[i]
  BY DEF Glue, GlueField

LEMMA GlueTyped ==
  ASSUME NEW S, NEW f \in Seq(Seq(S)), NEW g, NEW n \in 0..Len(f), Glue(f, g, n)
  PROVE  \A i \in 1..n : g[i] \in Seq(S)
<1> DEFINE Bad == {i \in Nat : i \in 1..n /\ g[i] \notin Seq(S)}
<1> SUFFICES ASSUME Bad # {} PROVE FALSE
  OBVIOUS
<1>1. PICK i \in Bad : \A k \in Bad : i <= k
  BY LeastNatural
<1>2. i \in 1..n /\ f[i] \in Seq(S) /\ n \in Nat
  BY <1>1
<1>3. i # 1 => g[i - 1] \in Seq(S)
  BY <1>1, <1>2
<1>4. g[i] = IF i = 1 THEN f[i] ELSE g[i - 1] \o f[i]
  BY <1>2, GlueStep
<1>5. i # 1 => g[i - 1] \o f[i] \in Seq(S)
  BY <1>2, <1>3, ConcatProperties
<1>6. g[i] \in Seq(S)
  BY <1>2, <1>4, <1>5
<1> QED
  BY <1>1, <1>6

\* The same elements give the same.
LEMMA GlueSame ==
  ASSUME NEW f, NEW g, NEW n \in Nat, NEW e, NEW h, NEW m \in Nat,
         Glue(f, g, n), Glue(e, h, m), n <= m, \A i \in 1..n : f[i] = e[i]
  PROVE  \A i \in 1..n : g[i] = h[i]
<1> DEFINE Bad == {i \in Nat : i \in 1..n /\ g[i] # h[i]}
<1> SUFFICES ASSUME Bad # {} PROVE FALSE
  OBVIOUS
<1>1. PICK i \in Bad : \A k \in Bad : i <= k
  BY LeastNatural
<1>2. i \in 1..n /\ i \in 1..m
  BY <1>1
<1>3. i # 1 => g[i - 1] = h[i - 1]
  BY <1>1, <1>2
<1>4. g[i] = IF i = 1 THEN f[i] ELSE g[i - 1] \o f[i]
  BY <1>2, GlueStep
<1>5. h[i] = IF i = 1 THEN e[i] ELSE h[i - 1] \o e[i]
  BY <1>2, GlueStep
<1> QED
  BY <1>1, <1>2, <1>3, <1>4, <1>5

LEMMA FlattenTyped ==
  ASSUME NEW S, NEW f \in Seq(Seq(S))
  PROVE  FlattenSeq(f) \in Seq(S)
<1>1. CASE f = <<>>
  BY <1>1 DEF FlattenSeq
<1>2. CASE f # <<>>
  <2>1. Len(f) \in Nat /\ Len(f) # 0
    BY <1>2
  <2>2. PICK g : Glue(f, g, Len(f)) /\ FlattenSeq(f) = g[Len(f)]
    BY <2>1, FlattenIsGlue
  <2> QED
    BY <2>1, <2>2, GlueTyped
<1> QED
  BY <1>1, <1>2

\* One more element at the end.
LEMMA FlattenAppend ==
  ASSUME NEW S, NEW f \in Seq(Seq(S)), NEW x \in Seq(S)
  PROVE  FlattenSeq(Append(f, x)) = FlattenSeq(f) \o x
<1> DEFINE e == Append(f, x)
           n == Len(f)
<1>0. n \in Nat /\ n = Len(f) /\ e \in Seq(Seq(S)) /\ Len(e) = n + 1 /\ e[n + 1] = x
  BY AppendProperties
<1>a. \A i \in 1..n : f[i] = e[i]
  BY AppendProperties
<1> HIDE DEF e, n
<1> DEFINE l == n + 1
<1>b. l \in Nat /\ l # 0 /\ l \in 1..l /\ n <= l /\ l - 1 = n /\ (l = 1 <=> n = 0) /\ l = Len(e)
  BY <1>0
<1> HIDE DEF l
<1>1. PICK h : Glue(e, h, l) /\ FlattenSeq(e) = h[l]
  BY <1>b, FlattenIsGlue
<1>2. h[l] = IF l = 1 THEN e[l] ELSE h[l - 1] \o e[l]
  BY <1>b, <1>1, GlueStep
<1>3. e[l] = x
  BY <1>0 DEF l
<1>4. CASE n = 0
  <2>1. f = <<>>
    BY <1>0, <1>4, EmptySeq
  <2>2. FlattenSeq(f) = <<>>
    BY <2>1 DEF FlattenSeq
  <2>3. FlattenSeq(e) = x
    BY <1>b, <1>1, <1>2, <1>3, <1>4
  <2> QED
    BY <2>2, <2>3, ConcatEmptySeq DEF e
<1>5. CASE n # 0
  <2>1. PICK g : Glue(f, g, n) /\ FlattenSeq(f) = g[n]
    BY <1>0, <1>5, FlattenIsGlue
  <2>2. \A i \in 1..n : g[i] = h[i]
    <3>1. Glue(f, g, n) /\ Glue(e, h, l) /\ n \in Nat /\ l \in Nat /\ n <= l
      BY <1>0, <1>b, <1>1, <2>1
    <3> QED
      BY <1>a, <3>1, GlueSame
  <2>3. g[n] = h[n]
    BY <1>0, <1>5, <2>2
  <2>4. FlattenSeq(e) = h[n] \o x
    BY <1>b, <1>1, <1>2, <1>3, <1>5
  <2> QED
    BY <2>1, <2>3, <2>4 DEF e
<1> QED
  BY <1>4, <1>5

------------------------------------------------------------------------------
(* The text of a page.                                                     *)

\* The names of pieces.  The two that Splitter cuts at are named since the provers
\* do not know of a string constant that it is one of STRING.
Piece == STRING \cup {"sep", "article"}

SymOf(P) == (P \cup {"quote"}) \X Nat
Sym == SymOf(Piece)

Opens(m) == IF m \in LongMarkers THEN <<m, 1>> ELSE <<m, 0>>

LEMMA SymbolsShape ==
  ASSUME NEW P, NEW p \in P
  PROVE  /\ Symbols(p) \in Seq(SymOf(P))
         /\ Len(Symbols(p)) \in {1, 2, 3}
         /\ Symbols(p)[1] = Opens(p)
<1> DEFINE a == <<p, 0>>
           b == <<p, 1>>
           c == <<p, 2>>
           d == <<"quote", 0>>
<1>1. a \in SymOf(P) /\ b \in SymOf(P) /\ c \in SymOf(P) /\ d \in SymOf(P)
  BY DEF SymOf
<1>2. CASE p \in {"img", "alt"}
  <2>1. Symbols(p) = <<b, d>> /\ Opens(p) = b
    BY <1>2 DEF Symbols, Opens, LongMarkers
  <2> HIDE DEF a, b, c, d
  <2> QED
    BY <1>1, <2>1
<1>3. CASE p \in {"link", "content"}
  <2>1. Symbols(p) = <<b, d, c>> /\ Opens(p) = b
    BY <1>3 DEF Symbols, Opens, LongMarkers
  <2> HIDE DEF a, b, c, d
  <2> QED
    BY <1>1, <2>1
<1>4. CASE p \in {"list", "sep", "end", "h1", "meta"}
  <2>1. Symbols(p) = <<b, c>> /\ Opens(p) = b
    BY <1>4 DEF Symbols, Opens, LongMarkers
  <2> HIDE DEF a, b, c, d
  <2> QED
    BY <1>1, <2>1
<1>5. CASE p \notin LongMarkers
  <2>1. Symbols(p) = <<a>> /\ Opens(p) = a
    BY <1>5 DEF Symbols, Opens, LongMarkers
  <2> HIDE DEF a, b, c, d
  <2> QED
    BY <1>1, <2>1
<1> QED
  BY <1>2, <1>3, <1>4, <1>5 DEF LongMarkers

LEMMA SymbolsTyped ==
  ASSUME NEW p \in Piece
  PROVE  /\ Symbols(p) \in Seq(Sym)
         /\ Len(Symbols(p)) \in {1, 2, 3}
         /\ Symbols(p)[1] = Opens(p)
  BY SymbolsShape DEF Sym

\* The first symbol of a tag is in no other place.
LEMMA FirstSymbol ==
  ASSUME NEW p, NEW m, m # "quote", NEW k \in 1..Len(Symbols(p)),
         Symbols(p)[k] = Symbols(m)[1]
  PROVE  p = m /\ k = 1
<1>1. Symbols(m)[1] = <<m, 0>> \/ Symbols(m)[1] = <<m, 1>>
  BY DEF Symbols
<1>2. CASE p \in {"img", "alt"}
  BY <1>1, <1>2 DEF Symbols
<1>3. CASE p \in {"link", "content"}
  BY <1>1, <1>3 DEF Symbols
<1>4. CASE p \in {"list", "sep", "end", "h1", "meta"}
  BY <1>1, <1>4 DEF Symbols
<1>5. CASE p \notin {"img", "alt", "link", "content", "list", "sep", "end", "h1", "meta"}
  BY <1>1, <1>5 DEF Symbols
<1> QED
  BY <1>2, <1>3, <1>4, <1>5

SymbolsOf(ps) == [k \in DOMAIN ps |-> Symbols(ps[k])]

LEMMA SymbolsOfTyped ==
  ASSUME NEW ps \in Seq(Piece)
  PROVE  /\ SymbolsOf(ps) \in Seq(Seq(Sym)) /\ Text(ps) = FlattenSeq(SymbolsOf(ps))
         /\ Len(SymbolsOf(ps)) = Len(ps)
         /\ \A k \in 1..Len(ps) : SymbolsOf(ps)[k] = Symbols(ps[k])
<1>0. DOMAIN ps = 1..Len(ps) /\ Len(ps) \in Nat
  BY SeqDef, LenProperties
<1>1. \A k \in DOMAIN ps : ps[k] \in Piece
  BY ElementOfSeq, <1>0
<1>2. \A k \in DOMAIN ps : Symbols(ps[k]) \in Seq(Sym)
  BY <1>1, SymbolsTyped, Zenon
<1> DEFINE n == Len(ps)
<1>3. SymbolsOf(ps) \in [1..n -> Seq(Sym)]
  BY <1>0, <1>2, Zenon DEF SymbolsOf
<1>4. \A k \in 1..n : SymbolsOf(ps)[k] = Symbols(ps[k])
  BY <1>0, Zenon DEF SymbolsOf
<1>5. Text(ps) = FlattenSeq(SymbolsOf(ps))
  BY Zenon DEF Text, SymbolsOf
<1>6. n \in Nat
  BY <1>0
<1> HIDE DEF n
<1>7. SymbolsOf(ps) \in Seq(Seq(Sym)) /\ Len(SymbolsOf(ps)) = n
  BY <1>3, <1>6
<1> QED
  BY <1>4, <1>5, <1>7 DEF n

LEMMA TextTyped ==
  ASSUME NEW ps \in Seq(Piece)
  PROVE  Text(ps) \in Seq(Sym) /\ Len(Text(ps)) \in Nat
<1>1. Text(ps) \in Seq(Sym)
  BY SymbolsOfTyped, FlattenTyped, Zenon
<1> QED
  BY <1>1, LenProperties

LEMMA TextOfNothing == Text(<<>>) = <<>>
<1>1. <<>> \in Seq(Piece) /\ Len(<<>>) = 0
  OBVIOUS
<1>2. SymbolsOf(<<>>) = <<>>
  BY <1>1, SymbolsOfTyped, EmptySeq
<1>3. FlattenSeq(<<>>) = <<>>
  BY DEF FlattenSeq
<1> QED
  BY <1>1, <1>2, <1>3, SymbolsOfTyped, Zenon

LEMMA AppendOne ==
  ASSUME NEW S, NEW s \in Seq(S), NEW x \in S
  PROVE  /\ Append(s, x) \in Seq(S)
         /\ Len(Append(s, x)) = Len(s) + 1
         /\ Append(s, x)[Len(s) + 1] = x
         /\ \A k \in 1..Len(s) : Append(s, x)[k] = s[k]
  BY AppendProperties

LEMMA TextAppend ==
  ASSUME NEW ps \in Seq(Piece), NEW p \in Piece
  PROVE  Text(Append(ps, p)) = Text(ps) \o Symbols(p)
<1> DEFINE e == Append(ps, p)
           f == SymbolsOf(e)
           g == Append(SymbolsOf(ps), Symbols(p))
           n == Len(ps)
<1>0. n \in Nat
  BY LenProperties
<1>1. /\ e \in Seq(Piece) /\ Len(e) = n + 1
      /\ e[n + 1] = p /\ \A k \in 1..n : e[k] = ps[k]
  BY AppendOne
<1>2. /\ f \in Seq(Seq(Sym)) /\ Text(e) = FlattenSeq(f) /\ Len(f) = Len(e)
      /\ \A k \in 1..Len(e) : f[k] = Symbols(e[k])
  BY <1>1, SymbolsOfTyped
<1>3. /\ SymbolsOf(ps) \in Seq(Seq(Sym)) /\ Symbols(p) \in Seq(Sym)
      /\ Text(ps) = FlattenSeq(SymbolsOf(ps)) /\ Len(SymbolsOf(ps)) = n
      /\ \A k \in 1..n : SymbolsOf(ps)[k] = Symbols(ps[k])
  BY SymbolsOfTyped, SymbolsTyped
<1>4. /\ g \in Seq(Seq(Sym)) /\ Len(g) = n + 1 /\ g[n + 1] = Symbols(p)
      /\ \A k \in 1..n : g[k] = SymbolsOf(ps)[k]
  <2>1. SymbolsOf(ps) \in Seq(Seq(Sym)) /\ Symbols(p) \in Seq(Sym) /\ Len(SymbolsOf(ps)) = n
    BY <1>3
  <2> DEFINE sy == SymbolsOf(ps)
             x == Symbols(p)
             T == Seq(Sym)
  <2>2. sy \in Seq(T) /\ x \in T /\ Len(sy) = n
    BY <2>1
  <2> HIDE DEF n, sy, x, T
  <2>3. /\ Append(sy, x) \in Seq(T) /\ Len(Append(sy, x)) = n + 1 /\ Append(sy, x)[n + 1] = x
        /\ \A k \in 1..n : Append(sy, x)[k] = sy[k]
    BY <2>2, AppendOne
  <2> QED
    BY <2>3 DEF sy, x, T
<1>5. FlattenSeq(g) = Text(ps) \o Symbols(p)
  BY <1>3, FlattenAppend
<1> HIDE DEF e, f, g, n
<1>6. \A k \in 1..(n + 1) : f[k] = g[k]
  <2> TAKE k \in 1..(n + 1)
  <2>1. CASE k = n + 1
    BY <1>0, <1>1, <1>2, <1>4, <2>1
  <2>2. CASE k # n + 1
    <3>1. k \in 1..n
      BY <1>0, <2>2
    <3> QED
      BY <1>0, <1>1, <1>2, <1>3, <1>4, <3>1
  <2> QED
    BY <2>1, <2>2
<1>7. f = g
  BY <1>0, <1>1, <1>2, <1>4, <1>6, SeqEqual
<1> QED
  BY <1>2, <1>5, <1>7 DEF e

LEMMA TextOfPiece ==
  ASSUME NEW p \in Piece
  PROVE  Text(<<p>>) = Symbols(p)
<1>1. <<p>> = Append(<<>>, p) /\ <<>> \in Seq(Piece)
  OBVIOUS
<1>2. Text(<<p>>) = <<>> \o Symbols(p)
  BY <1>1, TextAppend, TextOfNothing
<1> QED
  BY <1>2, SymbolsTyped, ConcatEmptySeq

------------------------------------------------------------------------------
(* Induction over sequences: a set of them for the formula to prove.       *)

LEMMA SeqInduction ==
  ASSUME NEW S, NEW Q, <<>> \in Q,
         \A s \in Seq(S), e \in S : s \in Q => Append(s, e) \in Q
  PROVE  Seq(S) \subseteq Q
<1> DEFINE Lacking == {n \in Nat : \E s \in Seq(S) : s \notin Q /\ Len(s) = n}
<1> SUFFICES ASSUME Lacking # {} PROVE FALSE
  BY LenProperties
<1>1. PICK n \in Lacking : \A k \in Lacking : n <= k
  BY LeastNatural
<1>2. PICK s \in Seq(S) : s \notin Q /\ Len(s) = n
  BY <1>1
<1>3. PICK r \in Seq(S), e \in S : s = Append(r, e)
  BY <1>2, SequenceEmptyOrAppend
<1>4. Len(r) \in Nat /\ n = Len(r) + 1
  BY <1>2, <1>3, AppendOne, LenProperties
<1>5. r \in Q
  BY <1>1, <1>4
<1> QED
  BY <1>2, <1>3, <1>5

LEMMA ConcatAppend ==
  ASSUME NEW S, NEW s \in Seq(S), NEW t \in Seq(S), NEW e \in S
  PROVE  s \o Append(t, e) = Append(s \o t, e)
<1>1. <<e>> \in Seq(S) /\ Append(t, e) = t \o <<e>>
  BY AppendIsConcat
<1>2. s \o t \in Seq(S) /\ Append(s \o t, e) = (s \o t) \o <<e>>
  BY ConcatProperties, AppendIsConcat
<1> QED
  BY <1>1, <1>2, ConcatAssociative

\* The text of two parts of a page is that of the one and that of the other.
LEMMA TextConcat ==
  ASSUME NEW ps \in Seq(Piece), NEW qs \in Seq(Piece)
  PROVE  Text(ps \o qs) = Text(ps) \o Text(qs)
<1> DEFINE Q == {rs \in Seq(Piece) : Text(ps \o rs) = Text(ps) \o Text(rs)}
<1>1. <<>> \in Q
  <2>1. <<>> \in Seq(Piece) /\ ps \o <<>> = ps
    BY ConcatEmptySeq
  <2>2. Text(ps) \o <<>> = Text(ps)
    BY TextTyped, ConcatEmptySeq
  <2> QED
    BY <2>1, <2>2, TextOfNothing
<1>2. ASSUME NEW rs \in Seq(Piece), NEW e \in Piece, rs \in Q
      PROVE  Append(rs, e) \in Q
  <2>1. ps \o rs \in Seq(Piece) /\ Append(rs, e) \in Seq(Piece)
    BY ConcatProperties, AppendOne
  <2>2. Text(ps \o Append(rs, e)) = Text(ps \o rs) \o Symbols(e)
    <3>1. ps \o Append(rs, e) = Append(ps \o rs, e)
      BY ConcatAppend
    <3> QED
      BY <2>1, <3>1, TextAppend, Zenon
  <2>3. Text(Append(rs, e)) = Text(rs) \o Symbols(e)
    BY TextAppend
  <2>4. (Text(ps) \o Text(rs)) \o Symbols(e) = Text(ps) \o (Text(rs) \o Symbols(e))
    <3>1. Text(ps) \in Seq(Sym) /\ Text(rs) \in Seq(Sym) /\ Symbols(e) \in Seq(Sym)
      BY TextTyped, SymbolsTyped
    <3> QED
      BY <3>1, ConcatAssociative
  <2>5. Text(ps \o rs) = Text(ps) \o Text(rs)
    BY <1>2
  <2> QED
    BY <2>1, <2>2, <2>3, <2>4, <2>5
<1> HIDE DEF Q
<1>3. Seq(Piece) \subseteq Q
  BY <1>1, <1>2, SeqInduction
<1> QED
  BY <1>3 DEF Q

Lacks(s, c) == \A k \in 1..Len(s) : s[k] # c

LEMMA LacksConcat ==
  ASSUME NEW T, NEW s \in Seq(T), NEW t \in Seq(T), NEW c, Lacks(s, c), Lacks(t, c)
  PROVE  Lacks(s \o t, c)
<1>1. Len(s) \in Nat /\ Len(t) \in Nat
  BY LenProperties
<1>2. /\ Len(s \o t) = Len(s) + Len(t)
      /\ \A i \in 1 .. Len(s) + Len(t) : (s \o t)[i] = IF i <= Len(s) THEN s[i] ELSE t[i - Len(s)]
  BY ConcatProperties
<1> SUFFICES ASSUME NEW k \in 1..(Len(s) + Len(t)) PROVE (s \o t)[k] # c
  BY <1>2 DEF Lacks
<1>3. CASE k <= Len(s)
  BY <1>1, <1>2, <1>3 DEF Lacks
<1>4. CASE ~(k <= Len(s))
  <2>1. k - Len(s) \in 1..Len(t)
    BY <1>1, <1>4
  <2> QED
    BY <1>2, <1>4, <2>1 DEF Lacks
<1> QED
  BY <1>3, <1>4

\* What opens a tag is nowhere in the text of pieces the tag is not one of.
LEMMA NoTag ==
  ASSUME NEW m, m # "quote", NEW ps \in Seq(Piece), \A k \in 1..Len(ps) : ps[k] # m
  PROVE  Lacks(Text(ps), Opens(m))
<1> DEFINE Q == {rs \in Seq(Piece) : Lacks(rs, m) => Lacks(Text(rs), Opens(m))}
<1>1. <<>> \in Q
  <2>1. <<>> \in Seq(Piece) /\ Len(<<>>) = 0
    OBVIOUS
  <2>2. Lacks(<<>>, Opens(m))
    BY <2>1 DEF Lacks
  <2> QED
    BY <2>1, <2>2, TextOfNothing
<1>2. ASSUME NEW rs \in Seq(Piece), NEW e \in Piece, rs \in Q
      PROVE  Append(rs, e) \in Q
  <2> SUFFICES ASSUME Lacks(Append(rs, e), m) PROVE Lacks(Text(Append(rs, e)), Opens(m))
    BY AppendOne
  <2>1. e # m /\ Lacks(rs, m)
    BY AppendOne, LenProperties DEF Lacks
  <2>2. Lacks(Text(rs), Opens(m))
    BY <1>2, <2>1
  <2>3. Lacks(Symbols(e), Opens(m))
    <3>1. Symbols(m)[1] = Opens(m)
      BY SymbolsShape
    <3> QED
      BY <2>1, <3>1, FirstSymbol DEF Lacks
  <2>4. Text(Append(rs, e)) = Text(rs) \o Symbols(e)
    BY TextAppend
  <2>5. Text(rs) \in Seq(Sym) /\ Symbols(e) \in Seq(Sym)
    BY TextTyped, SymbolsTyped
  <2> HIDE DEF Q
  <2> QED
    BY <2>2, <2>3, <2>4, <2>5, LacksConcat
<1> HIDE DEF Q
<1>3. ps \in Q
  BY <1>1, <1>2, SeqInduction
<1> QED
  BY <1>3 DEF Q, Lacks

------------------------------------------------------------------------------
(* What a cut finds: s is a, the marker m and b, and m opens nowhere in a. *)

InThree(T, s, a, m, b) ==
  /\ s \in Seq(T) /\ Len(s) = Len(a) + Len(m) + Len(b)
  /\ \A i \in 1..Len(a) : s[i] = a[i]
  /\ \A i \in 1..Len(m) : s[Len(a) + i] = m[i]
  /\ \A i \in 1..Len(b) : s[Len(a) + Len(m) + i] = b[i]

LEMMA ThreeParts ==
  ASSUME NEW T, NEW a \in Seq(T), NEW m \in Seq(T), NEW b \in Seq(T)
  PROVE  InThree(T, a \o (m \o b), a, m, b)
<1> DEFINE r == m \o b
           s == a \o r
<1>1. Len(a) \in Nat /\ Len(m) \in Nat /\ Len(b) \in Nat
  BY LenProperties
<1>2. /\ r \in Seq(T) /\ Len(r) = Len(m) + Len(b)
      /\ \A i \in 1 .. Len(m) + Len(b) : r[i] = IF i <= Len(m) THEN m[i] ELSE b[i - Len(m)]
  BY ConcatProperties
<1> HIDE DEF r
<1>3. /\ s \in Seq(T) /\ Len(s) = Len(a) + Len(r)
      /\ \A i \in 1 .. Len(a) + Len(r) : s[i] = IF i <= Len(a) THEN a[i] ELSE r[i - Len(a)]
  <2>1. r \in Seq(T)
    BY <1>2
  <2> QED
    BY <2>1, ConcatProperties
<1> HIDE DEF s
<1>4. \A i \in 1..Len(a) : s[i] = a[i]
  BY <1>1, <1>2, <1>3
<1>5. ASSUME NEW i \in 1..Len(m) PROVE s[Len(a) + i] = m[i]
  <2> DEFINE l == Len(a) + i
  <2>0. l \in 1..(Len(a) + Len(r)) /\ ~(l <= Len(a)) /\ l - Len(a) = i
    BY <1>1, <1>2
  <2> HIDE DEF l
  <2>a. s[l] = r[i]
    BY <1>3, <2>0
  <2>1. s[Len(a) + i] = r[i]
    BY <2>a DEF l
  <2> QED
    BY <1>1, <1>2, <2>1
<1>6. ASSUME NEW i \in 1..Len(b) PROVE s[Len(a) + Len(m) + i] = b[i]
  <2> DEFINE j == Len(m) + i
  <2>1. j \in 1..Len(r) /\ ~(j <= Len(m)) /\ j - Len(m) = i
    BY <1>1, <1>2
  <2>2. r[j] = b[i]
    BY <1>1, <1>2, <2>1
  <2> HIDE DEF j
  <2> DEFINE l == Len(a) + j
  <2>0. l \in 1..(Len(a) + Len(r)) /\ ~(l <= Len(a)) /\ l - Len(a) = j
    BY <1>1, <1>2, <2>1
  <2> HIDE DEF l
  <2>a. s[l] = r[j]
    BY <1>3, <2>0
  <2>3. s[Len(a) + j] = r[j]
    BY <2>a DEF l
  <2>4. Len(a) + j = Len(a) + Len(m) + i
    BY <1>1 DEF j
  <2> QED
    BY <2>2, <2>3, <2>4
<1>7. Len(s) = Len(a) + Len(m) + Len(b)
  BY <1>1, <1>2, <1>3
<1> QED
  BY <1>3, <1>4, <1>5, <1>6, <1>7 DEF InThree, s, r

\* A piece of s is t if their elements are the same.
LEMMA SubSeqIs ==
  ASSUME NEW T, NEW s \in Seq(T), NEW t \in Seq(T), NEW k \in Nat,
         k + Len(t) <= Len(s), \A i \in 1..Len(t) : s[k + i] = t[i]
  PROVE  SubSeq(s, k + 1, k + Len(t)) = t
<1> DEFINE n == Len(t)
           m == k + 1
           l == k + n
<1>1. n \in Nat /\ Len(s) \in Nat /\ m \in Int /\ l \in Int /\ l - m + 1 = n
  BY LenProperties
<1>2. \A i \in m..l : s[i] \in T
  <2>1. \A i \in m..l : i \in 1..Len(s)
    BY <1>1
  <2> QED
    BY <2>1, ElementOfSeq
<1>3. /\ SubSeq(s, m, l) \in Seq(T)
      /\ Len(SubSeq(s, m, l)) = IF m <= l THEN l - m + 1 ELSE 0
      /\ \A i \in 1..(l - m + 1) : SubSeq(s, m, l)[i] = s[m + i - 1]
  <2> HIDE DEF m, l
  <2> QED
    BY <1>1, <1>2, SubSeqProperties
<1>4. Len(SubSeq(s, m, l)) = n
  BY <1>1, <1>3
<1>5. \A i \in 1..n : SubSeq(s, m, l)[i] = t[i]
  <2>1. \A i \in 1..n : m + i - 1 = k + i
    BY <1>1
  <2> QED
    BY <1>1, <1>3, <2>1
<1> HIDE DEF m, l, n
<1>6. SubSeq(s, m, l) = t
  BY <1>3, <1>4, <1>5, SeqEqual DEF n
<1> QED
  BY <1>6 DEF m, l, n

LEMMA MinIs ==
  ASSUME NEW S \in SUBSET Int, NEW k \in S, \A j \in S : k <= j
  PROVE  Min(S) = k
<1>1. \E i \in S : \A j \in S : i <= j
  OBVIOUS
<1>2. Min(S) \in S /\ \A j \in S : Min(S) <= j
  BY <1>1, Zenon DEF Min
<1> DEFINE i == Min(S)
<1>3. i \in S /\ i <= k
  BY <1>2
<1> HIDE DEF i
<1>4. i \in Int /\ k \in Int /\ k <= i
  BY <1>3
<1>5. i = k
  BY <1>3, <1>4
<1> QED
  BY <1>5 DEF i

LEMMA FirstOfSubSeq ==
  ASSUME NEW T, NEW s \in Seq(T), NEW k \in Nat, NEW n \in Nat, n >= 1, k + n <= Len(s),
         NEW t, SubSeq(s, k + 1, k + n) = t
  PROVE  s[k + 1] = t[1]
<1> DEFINE m == k + 1
           l == k + n
<1>1. m \in Int /\ l \in Int /\ l - m + 1 = n /\ 1 \in 1..n /\ m + 1 - 1 = m /\ Len(s) \in Nat
  BY LenProperties
<1>2. \A i \in m..l : s[i] \in T
  <2>1. \A i \in m..l : i \in 1..Len(s)
    BY <1>1
  <2> QED
    BY <2>1, ElementOfSeq
<1> HIDE DEF m, l
<1>3. \A i \in 1..(l - m + 1) : SubSeq(s, m, l)[i] = s[m + i - 1]
  BY <1>1, <1>2, SubSeqProperties
<1>4. SubSeq(s, m, l)[1] = s[m]
  BY <1>1, <1>3
<1> QED
  BY <1>4 DEF m, l

IsCut(T, s, a, m, b) ==
  /\ a \in Seq(T) /\ m \in Seq(T) /\ b \in Seq(T)
  /\ Len(m) >= 1 /\ Lacks(a, m[1]) /\ s = a \o (m \o b)

LEMMA CutFinds ==
  ASSUME NEW T, NEW s, NEW a, NEW m, NEW b, IsCut(T, s, a, m, b)
  PROVE  /\ s \in Seq(T) /\ Len(s) = Len(a) + Len(m) + Len(b)
         /\ Occurrences(s, m) # {} /\ IndexOf(s, m) = Len(a)
         /\ Part(s, m) = a /\ Second(s, m) = {Part(b, m)}
         /\ UpTo(s, m) = {a} /\ From(s, m) = {b}
<1> USE DEF IsCut
<1>1. Len(a) \in Nat /\ Len(m) \in Nat /\ Len(b) \in Nat
  BY LenProperties
<1>2. /\ s \in Seq(T) /\ Len(s) = Len(a) + Len(m) + Len(b)
      /\ \A i \in 1..Len(a) : s[i] = a[i]
      /\ \A i \in 1..Len(m) : s[Len(a) + i] = m[i]
      /\ \A i \in 1..Len(b) : s[Len(a) + Len(m) + i] = b[i]
  <2>1. InThree(T, s, a, m, b)
    BY ThreeParts
  <2> QED
    BY <2>1, Zenon DEF InThree
<1>3. SubSeq(s, 1, Len(a)) = a
  <2>1. SubSeq(s, 0 + 1, 0 + Len(a)) = a
    <3>1. 0 \in Nat /\ 0 + Len(a) <= Len(s) /\ \A i \in 1..Len(a) : s[0 + i] = a[i]
      BY <1>1, <1>2
    <3> QED
      BY <1>2, <3>1, SubSeqIs
  <2> QED
    BY <1>1, <2>1
<1>4. SubSeq(s, Len(a) + Len(m) + 1, Len(s)) = b
  <2> DEFINE k == Len(a) + Len(m)
  <2>1. k \in Nat /\ k + Len(b) = Len(s) /\ \A i \in 1..Len(b) : s[k + i] = b[i]
    BY <1>1, <1>2
  <2> HIDE DEF k
  <2>2. SubSeq(s, k + 1, k + Len(b)) = b
    <3>1. k + Len(b) <= Len(s)
      BY <1>1, <2>1
    <3> QED
      BY <1>2, <2>1, <3>1, SubSeqIs
  <2> QED
    BY <2>1, <2>2 DEF k
<1>5. SubSeq(s, Len(a) + 1, Len(a) + Len(m)) = m
  <2>1. Len(a) \in Nat /\ Len(a) + Len(m) <= Len(s)
    BY <1>1, <1>2
  <2> QED
    BY <1>2, <2>1, SubSeqIs
<1>6. Len(a) \in Occurrences(s, m)
  <2>1. Len(a) \in 0..(Len(s) - Len(m))
    BY <1>1, <1>2
  <2> QED
    BY <1>5, <2>1 DEF Occurrences
<1>7. ASSUME NEW k \in Occurrences(s, m) PROVE k \in Nat /\ Len(a) <= k
  <2>1. k \in 0..(Len(s) - Len(m)) /\ SubSeq(s, k + 1, k + Len(m)) = m
    BY DEF Occurrences
  <2>2. k \in Nat
    BY <1>1, <1>2, <2>1
  <2> SUFFICES ASSUME k < Len(a) PROVE FALSE
    BY <1>1, <2>2
  <2>3. s[k + 1] = m[1]
    BY <1>1, <1>2, <2>1, <2>2, FirstOfSubSeq
  <2>4. k + 1 \in 1..Len(a)
    BY <1>1, <2>2
  <2> QED
    BY <1>2, <2>3, <2>4 DEF Lacks
<1>8. Min(Occurrences(s, m)) = Len(a)
  <2> DEFINE S == Occurrences(s, m)
             k == Len(a)
  <2>1. S \in SUBSET Int /\ k \in S /\ \A j \in S : k <= j
    BY <1>6, <1>7
  <2> HIDE DEF S, k
  <2>2. Min(S) = k
    BY <2>1, MinIs
  <2> QED
    BY <2>2 DEF S, k
<1>9. Occurrences(s, m) # {} /\ IndexOf(s, m) = Len(a)
  BY <1>6, <1>8 DEF IndexOf
<1>10. Part(s, m) = a /\ Second(s, m) = {Part(b, m)}
  BY <1>3, <1>4, <1>9, Zenon DEF Part, Second
<1>11. UpTo(s, m) = {a}
  <2>1. 0 <= Len(a) /\ Len(a) <= Len(s) /\ Len(s) \in Nat /\ Len(a) \in Int
    BY <1>1, <1>2
  <2>2. Substring(s, 0, Len(a)) = {SubSeq(s, 1, Len(a))}
    BY <2>1 DEF Substring
  <2> QED
    BY <1>3, <1>9, <2>2 DEF UpTo
<1>12. From(s, m) = {b}
  <2> DEFINE i == Len(a) + Len(m)
  <2>1. i \in Int /\ 0 <= i /\ i <= Len(s) /\ Len(s) \in Nat
    BY <1>1, <1>2
  <2>2. From(s, m) = Substring(s, i, Len(s))
    BY <1>9 DEF From
  <2>3. b = SubSeq(s, i + 1, Len(s))
    BY <1>4
  <2> HIDE DEF i
  <2>4. Substring(s, i, Len(s)) = {SubSeq(s, i + 1, Len(s))}
    BY <2>1 DEF Substring
  <2> QED
    BY <2>2, <2>3, <2>4
<1> QED
  BY <1>2, <1>9, <1>10, <1>11, <1>12

\* m opens nowhere in s.
LEMMA CutMisses ==
  ASSUME NEW T, NEW s \in Seq(T), NEW m, Len(m) \in Nat, Len(m) >= 1, Lacks(s, m[1])
  PROVE  Occurrences(s, m) = {}
<1>1. Len(s) \in Nat
  BY LenProperties
<1>2. ASSUME NEW k \in Occurrences(s, m) PROVE FALSE
  <2>1. k \in 0..(Len(s) - Len(m)) /\ SubSeq(s, k + 1, k + Len(m)) = m
    BY DEF Occurrences
  <2>2. k \in Nat /\ k + Len(m) <= Len(s) /\ k + 1 \in 1..Len(s)
    BY <1>1, <2>1
  <2>3. s[k + 1] = m[1]
    BY <2>1, <2>2, FirstOfSubSeq
  <2> QED
    BY <2>2, <2>3 DEF Lacks
<1> QED
  BY <1>2

------------------------------------------------------------------------------
(* What lies between the tags of a page.                                   *)

LEMMA FirstInFinds ==
  ASSUME NEW S, NEW a \in Nat, NEW b \in Nat, a < b
  PROVE  /\ FirstIn(S, a, b) \in (a + 1)..b
         /\ FirstIn(S, a, b) < b => page[FirstIn(S, a, b)] \in S
         /\ \A j \in (a + 1)..(FirstIn(S, a, b) - 1) : page[j] \notin S
<1> DEFINE Found == {k \in (a + 1)..(b - 1) : page[k] \in S}
<1>1. FirstIn(S, a, b) = IF Found = {} THEN b ELSE Min(Found)
  BY DEF FirstIn
<1>2. CASE Found = {}
  <2>1. FirstIn(S, a, b) = b
    BY <1>1, <1>2
  <2> QED
    BY <1>2, <2>1
<1>3. CASE Found # {}
  <2>1. Found \in SUBSET Nat
    OBVIOUS
  <2>2. PICK k \in Found : \A j \in Found : k <= j
    <3> HIDE DEF Found
    <3> QED
      BY <1>3, <2>1, LeastNatural
  <2>3. FirstIn(S, a, b) = k
    <3>1. Found \in SUBSET Int
      BY <2>1
    <3> HIDE DEF Found
    <3> QED
      BY <1>1, <1>3, <2>2, <3>1, MinIs
  <2>4. \A j \in (a + 1)..(k - 1) : page[j] \notin S
    BY <2>2
  <2> QED
    BY <2>2, <2>3, <2>4
<1> QED
  BY <1>2, <1>3

LEMMA FirstInIs ==
  ASSUME NEW S, NEW a \in Nat, NEW b \in Nat, NEW k \in (a + 1)..b,
         k < b => page[k] \in S, \A j \in (a + 1)..(k - 1) : page[j] \notin S
  PROVE  FirstIn(S, a, b) = k
<1> DEFINE i == FirstIn(S, a, b)
<1>1. /\ i \in (a + 1)..b /\ (i < b => page[i] \in S)
      /\ \A j \in (a + 1)..(i - 1) : page[j] \notin S
  BY FirstInFinds
<1> HIDE DEF i
<1>2. ~(i < k) /\ ~(k < i)
  BY <1>1
<1>3. i = k
  BY <1>1, <1>2
<1> QED
  BY <1>3 DEF i

\* The first of either is the first of the one before the first of the other.
LEMMA FirstOfEither ==
  ASSUME NEW S, NEW T, NEW U, NEW a \in Nat, NEW b \in Nat, a < b, U = S \cup T
  PROVE  FirstIn(U, a, b) = FirstIn(T, a, FirstIn(S, a, b))
<1> DEFINE i == FirstIn(S, a, b)
           j == FirstIn(T, a, i)
<1>1. /\ i \in (a + 1)..b /\ (i < b => page[i] \in S)
      /\ \A h \in (a + 1)..(i - 1) : page[h] \notin S
  BY FirstInFinds
<1> HIDE DEF i
<1>2. /\ j \in (a + 1)..i /\ (j < i => page[j] \in T)
      /\ \A h \in (a + 1)..(j - 1) : page[h] \notin T
  <2>1. i \in Nat /\ a < i
    BY <1>1
  <2> QED
    BY <2>1, FirstInFinds
<1> HIDE DEF j
<1>3. j \in (a + 1)..b /\ (j < b => page[j] \in U)
  BY <1>1, <1>2
<1>4. \A h \in (a + 1)..(j - 1) : page[h] \notin U
  BY <1>1, <1>2
<1>5. FirstIn(U, a, b) = j
  BY <1>3, <1>4, FirstInIs
<1> QED
  BY <1>5 DEF i, j

LEMMA BetweenTyped ==
  ASSUME page \in Seq(Piece), NEW a \in Nat, NEW b \in Nat, b <= Len(page) + 1
  PROVE  /\ SubSeq(page, a + 1, b - 1) \in Seq(Piece)
         /\ Between(a, b) \in Seq(Sym) /\ Len(Between(a, b)) \in Nat
<1>1. \A i \in (a + 1)..(b - 1) : page[i] \in Piece
  <2>1. \A i \in (a + 1)..(b - 1) : i \in 1..Len(page)
    BY LenProperties
  <2> QED
    BY <2>1, ElementOfSeq
<1> DEFINE m == a + 1
           n == b - 1
<1>2. m \in Int /\ n \in Int
  OBVIOUS
<1> HIDE DEF m, n
<1>3. SubSeq(page, m, n) \in Seq(Piece)
  BY <1>1, <1>2, SubSeqProperties DEF m, n
<1> QED
  BY <1>3, TextTyped DEF Between, m, n

\* The tag at k cuts what lies between a and b in two.
LEMMA BetweenSplit ==
  ASSUME page \in Seq(Piece), NEW a \in Nat, NEW b \in Nat, b <= Len(page) + 1,
         NEW k \in (a + 1)..(b - 1)
  PROVE  Between(a, b) = Between(a, k) \o (Symbols(page[k]) \o Between(k, b))
<1> DEFINE m == a + 1
           n == b - 1
           h == k - 1
           l == k + 1
           P == SubSeq(page, m, h)
           R == SubSeq(page, l, n)
<1>1. /\ Len(page) \in Nat /\ k \in Nat /\ k <= Len(page) + 1
      /\ m \in 1..(Len(page) + 1) /\ h \in (m - 1)..Len(page) /\ n \in h..Len(page) /\ h + 1 = k
      /\ k \in 1..Len(page) /\ n \in k..Len(page)
  BY LenProperties
<1>2. page[k] \in Piece /\ <<page[k]>> \in Seq(Piece)
  BY <1>1, ElementOfSeq
<1>3. P \in Seq(Piece) /\ R \in Seq(Piece)
  <2>1. SubSeq(page, a + 1, k - 1) \in Seq(Piece)
    BY <1>1, BetweenTyped
  <2>2. SubSeq(page, k + 1, b - 1) \in Seq(Piece)
    BY <1>1, BetweenTyped
  <2> QED
    BY <2>1, <2>2
<1>4. SubSeq(page, k, n) = <<page[k]>> \o R
  <2> HIDE DEF n
  <2> QED
    BY <1>1, SubSeqRecursiveFirst
<1>5. P \o SubSeq(page, k, n) = SubSeq(page, m, n)
  <2> HIDE DEF m, n, h
  <2>1. SubSeq(page, m, h) \o SubSeq(page, h + 1, n) = SubSeq(page, m, n)
    BY <1>1, ConcatAdjacentSubSeq
  <2> QED
    BY <1>1, <2>1
<1>6. Between(a, b) = Text(P \o (<<page[k]>> \o R))
  BY <1>4, <1>5 DEF Between
<1>7. Between(a, k) = Text(P) /\ Between(k, b) = Text(R)
  BY DEF Between
<1> HIDE DEF P, R
<1>8. <<page[k]>> \o R \in Seq(Piece)
  BY <1>2, <1>3, ConcatProperties
<1>9. Text(P \o (<<page[k]>> \o R)) = Text(P) \o Text(<<page[k]>> \o R)
  BY <1>3, <1>8, TextConcat
<1>10. Text(<<page[k]>> \o R) = Symbols(page[k]) \o Text(R)
  <2>1. Text(<<page[k]>> \o R) = Text(<<page[k]>>) \o Text(R)
    BY <1>2, <1>3, TextConcat
  <2>2. Text(<<page[k]>>) = Symbols(page[k])
    BY <1>2, TextOfPiece
  <2> QED
    BY <2>1, <2>2
<1> QED
  BY <1>6, <1>7, <1>9, <1>10

LEMMA BetweenLacks ==
  ASSUME page \in Seq(Piece), NEW a \in Nat, NEW b \in Nat, b <= Len(page) + 1,
         NEW m, m # "quote", \A j \in (a + 1)..(b - 1) : page[j] # m
  PROVE  Lacks(Between(a, b), Opens(m))
<1> DEFINE P == SubSeq(page, a + 1, b - 1)
<1>1. P \in Seq(Piece)
  BY BetweenTyped
<1>2. \A k \in 1..Len(P) : P[k] # m
  <2> DEFINE f == a + 1
             l == b - 1
  <2>1. f \in Int /\ l \in Int
    OBVIOUS
  <2>2. \A i \in f..l : page[i] \in Piece
    <3>1. \A i \in f..l : i \in 1..Len(page)
      BY LenProperties
    <3> QED
      BY <3>1, ElementOfSeq
  <2> HIDE DEF f, l
  <2>3. /\ Len(SubSeq(page, f, l)) = IF f <= l THEN l - f + 1 ELSE 0
        /\ \A i \in 1..(l - f + 1) : SubSeq(page, f, l)[i] = page[f + i - 1]
    BY <2>1, <2>2, SubSeqProperties
  <2>4. ASSUME NEW k \in 1..Len(SubSeq(page, f, l)) PROVE SubSeq(page, f, l)[k] # m
    <3>1. k \in 1..(l - f + 1) /\ f + k - 1 \in f..l
      BY <2>1, <2>3
    <3>2. page[f + k - 1] # m
      BY <3>1 DEF f, l
    <3> QED
      BY <2>3, <3>1, <3>2
  <2> QED
    BY <2>4 DEF f, l
<1> HIDE DEF P
<1>3. Lacks(Text(P), Opens(m))
  BY <1>1, <1>2, NoTag
<1> QED
  BY <1>3 DEF Between, P

Searched(a, b, m) ==
  LET k == FirstIn({m}, a, b)
      s == Between(a, b)
  IN  /\ k \in (a + 1)..b
      /\ k < b => /\ page[k] = m /\ IndexOf(s, Symbols(m)) = Len(Between(a, k))
                  /\ Part(s, Symbols(m)) = Between(a, k)
                  /\ Second(s, Symbols(m)) = {Part(Between(k, b), Symbols(m))}
                  /\ UpTo(s, Symbols(m)) = {Between(a, k)}
                  /\ From(s, Symbols(m)) = {Between(k, b)}
      /\ k = b => /\ Occurrences(s, Symbols(m)) = {} /\ IndexOf(s, Symbols(m)) = -1

LEMMA TagSearched ==
  ASSUME page \in Seq(Piece), NEW a \in Nat, NEW b \in Nat, a < b, b <= Len(page) + 1,
         NEW m, m # "quote"
  PROVE  Searched(a, b, m)
<1> DEFINE k == FirstIn({m}, a, b)
           s == Between(a, b)
           y == Symbols(m)
<1>0. Len(page) \in Nat
  BY LenProperties
<1>1. /\ k \in (a + 1)..b /\ (k < b => page[k] \in {m})
      /\ \A j \in (a + 1)..(k - 1) : page[j] \notin {m}
  BY FirstInFinds
<1>2. Len(y) \in {1, 2, 3} /\ y[1] = Opens(m)
  BY SymbolsShape
<1> HIDE DEF k
<1>3. k \in Nat /\ k <= Len(page) + 1
  BY <1>0, <1>1
<1>4. Lacks(Between(a, k), y[1])
  <2>1. \A j \in (a + 1)..(k - 1) : page[j] # m
    BY <1>1
  <2> QED
    BY <1>2, <1>3, <2>1, BetweenLacks
<1>5. ASSUME k < b
      PROVE  /\ page[k] = m /\ IndexOf(s, y) = Len(Between(a, k))
             /\ Part(s, y) = Between(a, k) /\ Second(s, y) = {Part(Between(k, b), y)}
             /\ UpTo(s, y) = {Between(a, k)} /\ From(s, y) = {Between(k, b)}
  <2>1. page[k] = m /\ k \in (a + 1)..(b - 1) /\ k \in 1..Len(page)
    BY <1>0, <1>1, <1>5
  <2>2. m \in Piece
    BY <2>1, ElementOfSeq
  <2>3. y \in Seq(Sym)
    BY <2>2, SymbolsTyped
  <2>4. s = Between(a, k) \o (y \o Between(k, b))
    BY <2>1, BetweenSplit
  <2>5. Between(a, k) \in Seq(Sym) /\ Between(k, b) \in Seq(Sym)
    BY <1>3, BetweenTyped
  <2> DEFINE A == Between(a, k)
             B == Between(k, b)
  <2>6. IsCut(Sym, s, A, y, B)
    BY <1>2, <1>4, <2>3, <2>4, <2>5 DEF IsCut
  <2> HIDE DEF A, B, s, y
  <2>7. /\ IndexOf(s, y) = Len(A)
        /\ Part(s, y) = A /\ Second(s, y) = {Part(B, y)}
        /\ UpTo(s, y) = {A} /\ From(s, y) = {B}
    BY <2>6, CutFinds
  <2> QED
    BY <2>1, <2>7 DEF A, B
<1>6. ASSUME k = b PROVE Occurrences(s, y) = {} /\ IndexOf(s, y) = -1
  <2>1. s \in Seq(Sym) /\ Lacks(s, y[1])
    BY <1>4, <1>6, BetweenTyped
  <2>2. Len(y) \in Nat /\ Len(y) >= 1
    BY <1>2
  <2> HIDE DEF s, y
  <2>3. Occurrences(s, y) = {}
    BY <2>1, <2>2, CutMisses
  <2> QED
    BY <2>3 DEF IndexOf
<1> QED
  BY <1>1, <1>5, <1>6 DEF Searched, k

\* What the code cuts at a tag lies between the tags.
CutAtTag(a, b, m) ==
  LET k == FirstIn({m}, a, b)
      s == Between(a, b)
  IN  /\ k \in (a + 1)..b
      /\ Part(s, Symbols(m)) = Between(a, k)
      /\ Second(s, Symbols(m)) = IF k = b THEN {} ELSE {Between(k, FirstIn({m}, k, b))}
      /\ UpTo(s, Symbols(m)) = IF k = b THEN {} ELSE {Between(a, k)}
      /\ k # b => From(s, Symbols(m)) = {Between(k, b)}
      /\ IndexOf(s, Symbols(m)) = IF k = b THEN -1 ELSE Len(Between(a, k))

LEMMA TagCut ==
  ASSUME page \in Seq(Piece), NEW a \in Nat, NEW b \in Nat, a < b, b <= Len(page) + 1,
         NEW m, m # "quote"
  PROVE  CutAtTag(a, b, m)
<1> DEFINE k == FirstIn({m}, a, b)
           s == Between(a, b)
           y == Symbols(m)
<1>1. /\ k \in (a + 1)..b
      /\ k < b => /\ page[k] = m /\ IndexOf(s, y) = Len(Between(a, k))
                  /\ Part(s, y) = Between(a, k) /\ Second(s, y) = {Part(Between(k, b), y)}
                  /\ UpTo(s, y) = {Between(a, k)} /\ From(s, y) = {Between(k, b)}
      /\ k = b => Occurrences(s, y) = {} /\ IndexOf(s, y) = -1
  <2>1. Searched(a, b, m)
    BY TagSearched
  <2> QED
    BY <2>1, Zenon DEF Searched
<1> HIDE DEF k, y
<1>2. CASE k = b
  <2>1. Part(s, y) = s /\ Second(s, y) = {}
    BY <1>1, <1>2, Zenon DEF Part, Second
  <2>2. UpTo(s, y) = {}
    BY <1>1, <1>2 DEF UpTo, Substring
  <2>3. IndexOf(s, y) = -1 /\ s = Between(a, k)
    BY <1>1, <1>2
  <2>4. Part(s, y) = Between(a, k)
    BY <2>1, <2>3
  <2>5. Second(s, y) = IF k = b THEN {} ELSE {Between(k, FirstIn({m}, k, b))}
    BY <1>2, <2>1
  <2>6. UpTo(s, y) = IF k = b THEN {} ELSE {Between(a, k)}
    BY <1>2, <2>2
  <2>7. IndexOf(s, y) = IF k = b THEN -1 ELSE Len(Between(a, k))
    BY <1>2, <2>3
  <2> QED
    BY <1>1, <1>2, <2>4, <2>5, <2>6, <2>7, Zenon DEF CutAtTag, k, y
<1>3. CASE k # b
  <2>1. k \in Nat /\ k < b
    BY <1>1, <1>3
  <2>2. Part(Between(k, b), y) = Between(k, FirstIn({m}, k, b))
    <3> DEFINE h == FirstIn({m}, k, b)
    <3>1. /\ h \in (k + 1)..b
          /\ h < b => Part(Between(k, b), y) = Between(k, h)
          /\ h = b => Occurrences(Between(k, b), y) = {}
      <4>1. Searched(k, b, m)
        BY <2>1, TagSearched
      <4> QED
        BY <4>1, Zenon DEF Searched, y
    <3> HIDE DEF h
    <3>2. CASE h = b
      <4>0. Occurrences(Between(k, b), y) = {}
        BY <3>1, <3>2
      <4>1. Part(Between(k, b), y) = Between(k, b)
        BY <4>0, Zenon DEF Part
      <4> QED
        BY <3>2, <4>1 DEF h
    <3>3. CASE h # b
      BY <3>1, <3>3 DEF h
    <3> QED
      BY <3>2, <3>3
  <2> QED
    BY <1>1, <1>3, <2>1, <2>2 DEF CutAtTag, k, y
<1> QED
  BY <1>2, <1>3

------------------------------------------------------------------------------
(* The pages there are, and what of them is the content of a dz.           *)

PageIInv ==
  /\ kind \in DOMAIN Times
  /\ page \in Seq(Piece) /\ page # <<>> /\ page[1] = "x"

LEMMA PageInit == ASSUME Init PROVE PageIInv
<1> USE PiecesAssumption
<1>1. kind \in DOMAIN Times /\ page = Start[kind]
  BY DEF Init
<1>2. Start[kind] \in Seq(Piece) /\ Start[kind] # <<>> /\ Start[kind][1] = "x"
  BY <1>1 DEF Piece
<1> QED
  BY <1>1, <1>2 DEF PageIInv

LEMMA PageStep == ASSUME PageIInv, [Next]_<<kind, page>> PROVE PageIInv'
<1>1. CASE UNCHANGED <<kind, page>>
  BY <1>1 DEF PageIInv
<1>2. CASE Next
  <2>1. PICK p \in DOMAIN Times[kind] : page' = Append(page, p) /\ UNCHANGED kind
    BY <1>2 DEF Next
  <2>2. kind \in DOMAIN Times
    BY DEF PageIInv
  <2>3. p \in Piece
    BY <2>1, <2>2, PiecesAssumption DEF Piece
  <2>4. page \in Seq(Piece) /\ page # <<>> /\ page[1] = "x"
    BY DEF PageIInv
  <2>5. Len(page) \in Nat /\ Len(page) >= 1
    BY <2>4, EmptySeq
  <2>6. /\ Append(page, p) \in Seq(Piece) /\ Len(Append(page, p)) = Len(page) + 1
        /\ \A k \in 1..Len(page) : Append(page, p)[k] = page[k]
    BY <2>3, <2>4, AppendOne
  <2>7. Append(page, p) # <<>> /\ Append(page, p)[1] = "x"
    BY <2>4, <2>5, <2>6
  <2> QED
    BY <2>1, <2>2, <2>6, <2>7 DEF PageIInv
<1> QED
  BY <1>1, <1>2

LEMMA WholePage ==
  ASSUME PageIInv
  PROVE  /\ page \in Seq(Piece) /\ Len(page) \in Nat /\ Len(page) >= 1
         /\ Between(0, Len(page) + 1) = Text(page)
<1>1. page \in Seq(Piece) /\ page # <<>>
  BY DEF PageIInv
<1>2. Len(page) \in Nat /\ Len(page) >= 1
  BY <1>1, EmptySeq
<1> DEFINE l == Len(page)
<1>3. SubSeq(page, 1, l) = page
  BY <1>1, SubSeqFull
<1>4. 0 + 1 = 1 /\ l + 1 - 1 = l
  BY <1>2
<1>5. Between(0, l + 1) = Text(page)
  <2>1. Between(0, l + 1) = Text(SubSeq(page, 0 + 1, l + 1 - 1))
    BY DEF Between
  <2>2. SubSeq(page, 0 + 1, l + 1 - 1) = SubSeq(page, 1, l)
    BY <1>4
  <2> QED
    BY <1>3, <2>1, <2>2
<1> QED
  BY <1>1, <1>2, <1>5

LEMMA SomeText ==
  ASSUME NEW ps \in Seq(Piece), Len(ps) >= 1
  PROVE  Len(Text(ps)) >= 1
<1>1. Len(ps) \in Nat /\ ps # <<>>
  BY LenProperties, EmptySeq
<1>2. PICK r \in Seq(Piece), e \in Piece : ps = Append(r, e)
  BY <1>1, SequenceEmptyOrAppend
<1>3. Text(ps) = Text(r) \o Symbols(e)
  BY <1>2, TextAppend
<1>4. Text(r) \in Seq(Sym) /\ Symbols(e) \in Seq(Sym) /\ Len(Symbols(e)) \in {1, 2, 3}
  BY TextTyped, SymbolsTyped
<1>5. Len(Text(r) \o Symbols(e)) = Len(Text(r)) + Len(Symbols(e)) /\ Len(Text(r)) \in Nat
  <2>1. Text(r) \in Seq(Sym) /\ Symbols(e) \in Seq(Sym)
    BY <1>4
  <2> QED
    BY <2>1, ConcatProperties, LenProperties
<1>6. Len(Text(ps)) = Len(Text(r)) + Len(Symbols(e))
  BY <1>3, <1>5
<1> DEFINE i == Len(Text(r))
           j == Len(Symbols(e))
<1>7. i \in Nat /\ j \in {1, 2, 3} /\ Len(Text(ps)) = i + j
  BY <1>4, <1>5, <1>6
<1> HIDE DEF i, j
<1> QED
  BY <1>7

\* indexOf is above 0 if the tag is on the page: it cannot be its first piece.
LEMMA OnPage ==
  ASSUME PageIInv, NEW m, m # "quote", m # "x"
  PROVE  IndexOf(Text(page), Symbols(m)) > 0 <=> m \in ToSet(page)
<1> DEFINE b == Len(page) + 1
           k == FirstIn({m}, 0, b)
<1>1. page \in Seq(Piece) /\ Len(page) \in Nat /\ Len(page) >= 1 /\ Between(0, b) = Text(page)
  BY WholePage
<1>2. 0 \in Nat /\ b \in Nat /\ 0 < b /\ b <= Len(page) + 1
  BY <1>1
<1>3. /\ k \in (0 + 1)..b /\ (k < b => page[k] \in {m})
      /\ \A j \in (0 + 1)..(k - 1) : page[j] \notin {m}
  <2> HIDE DEF b
  <2> QED
    BY <1>2, FirstInFinds
<1>4. IndexOf(Text(page), Symbols(m)) = IF k = b THEN -1 ELSE Len(Between(0, k))
  <2>1. CutAtTag(0, b, m)
    BY <1>1, <1>2, TagCut
  <2> QED
    BY <1>1, <2>1, Zenon DEF CutAtTag
<1> HIDE DEF k
<1>5. ToSet(page) = {page[j] : j \in 1..Len(page)}
  BY <1>1 DEF ToSet
<1>6. CASE k = b
  <2>1. m \notin ToSet(page)
    BY <1>3, <1>5, <1>6
  <2> QED
    BY <1>4, <1>6, <2>1
<1>7. CASE k # b
  <2>1. k \in 1..Len(page) /\ page[k] = m
    BY <1>1, <1>3, <1>7
  <2>2. k > 1
    <3>1. page[1] = "x"
      BY DEF PageIInv
    <3> QED
      BY <2>1, <3>1
  <2>3. Len(Between(0, k)) >= 1
    <3> DEFINE l == k - 1
    <3>1. l \in Nat /\ l >= 1 /\ 1 \in Int /\ l \in Int /\ \A i \in 1..l : page[i] \in Piece
      BY <1>1, <2>1, <2>2, ElementOfSeq
    <3>2. Between(0, k) = Text(SubSeq(page, 1, l))
      BY DEF Between
    <3> HIDE DEF l
    <3>3. /\ SubSeq(page, 1, l) \in Seq(Piece)
          /\ Len(SubSeq(page, 1, l)) = IF 1 <= l THEN l - 1 + 1 ELSE 0
      BY <3>1, SubSeqProperties
    <3>4. Len(SubSeq(page, 1, l)) >= 1
      BY <3>1, <3>3
    <3> QED
      BY <3>2, <3>3, <3>4, SomeText
  <2>4. Len(Between(0, k)) \in Nat
    BY <1>1, <2>1, BetweenTyped
  <2>5. m \in ToSet(page)
    BY <1>5, <2>1
  <2> QED
    BY <1>4, <1>7, <2>3, <2>4, <2>5
<1> QED
  BY <1>6, <1>7

LEMMA TitleCut ==
  ASSUME PageIInv
  PROVE  ContentIsTitle
<1> DEFINE b == Len(page) + 1
           s == Text(page)
           a == FirstIn({"h1"}, 0, b)
           k == FirstIn({"h1"}, a, b)
           e == FirstIn({"h1", "/h1"}, a, b)
           Held(t) == [kind |-> "dz", content |-> SelectSeq(Trim(t), NoP)]
<1>1. /\ page \in Seq(Piece) /\ Len(page) \in Nat /\ Between(0, b) = s
      /\ 0 \in Nat /\ b \in Nat /\ 0 < b /\ b <= Len(page) + 1
  BY WholePage
<1>2. /\ a \in (0 + 1)..b
      /\ Second(s, Symbols("h1")) = IF a = b THEN {} ELSE {Between(a, k)}
  <2>1. CutAtTag(0, b, "h1")
    BY <1>1, TagCut
  <2> QED
    BY <1>1, <2>1, Zenon DEF CutAtTag
<1> HIDE DEF b, s, a
<1>3. IndexOf(s, Symbols("gone")) > 0 <=> "gone" \in ToSet(page)
  BY OnPage DEF s
<1>4. DzPage(s) = IF "gone" \in ToSet(page) THEN {[kind |-> "gone"]}
                  ELSE {Held(Part(t, Symbols("/h1"))) : t \in Second(s, Symbols("h1"))}
  BY <1>3, Zenon DEF DzPage
<1>5. ASSUME a # b PROVE Part(Between(a, k), Symbols("/h1")) = Between(a, e)
  <2>1. a \in Nat /\ a < b
    BY <1>1, <1>2, <1>5
  <2>2. k \in (a + 1)..b
    BY <1>1, <2>1, FirstInFinds
  <2>3. e = FirstIn({"/h1"}, a, k)
    <3>1. a \in Nat /\ b \in Nat /\ a < b
      BY <1>1, <2>1
    <3> DEFINE S == {"h1"}
               T == {"/h1"}
               U == {"h1", "/h1"}
    <3>2. U = S \cup T
      OBVIOUS
    <3> HIDE DEF S, T, U
    <3>3. FirstIn(U, a, b) = FirstIn(T, a, FirstIn(S, a, b))
      BY <3>1, <3>2, FirstOfEither
    <3> QED
      BY <3>3 DEF S, T, U
  <2> HIDE DEF k, e
  <2>4. k \in Nat /\ a < k /\ k <= Len(page) + 1
    BY <1>1, <2>1, <2>2
  <2>5. CutAtTag(a, k, "/h1")
    BY <1>1, <2>1, <2>4, TagCut
  <2> QED
    BY <2>3, <2>5, Zenon DEF CutAtTag
<1> HIDE DEF k, e
<1>6. kind = "dz" => DzPage(s) =
        IF "gone" \in ToSet(page) THEN {[kind |-> "gone"]}
        ELSE IF a > Len(page) THEN {} ELSE {Held(Between(a, e))}
  <2>1. a > Len(page) <=> a = b
    BY <1>1, <1>2 DEF b
  <2>2. CASE a = b
    BY <1>2, <1>4, <2>1, <2>2, Zenon
  <2>3. CASE a # b
    <3>1. Second(s, Symbols("h1")) = {Between(a, k)}
      BY <1>2, <2>3
    <3> QED
      BY <1>4, <1>5, <2>1, <2>3, <3>1, Zenon
  <2> QED
    BY <2>2, <2>3
<1> QED
  BY <1>6, Zenon DEF ContentIsTitle, First, a, b, e, s

\* On every page of a dz, whatever tags it lacks, the dz is skipped only if its
\* page says that it is gone, and otherwise its content is what lies between its
\* first title's tag and the next one (parsePerDZ), for pages of any length.
THEOREM ContentOfTitle == Spec => []ContentIsTitle
<1>1. Spec => []PageIInv
  BY PageInit, PageStep, PTL DEF Spec
<1>2. PageIInv => ContentIsTitle
  BY TitleCut
<1> QED
  BY <1>1, <1>2, PTL

------------------------------------------------------------------------------
(* Splitter: its parts are free of the separator, and joined they are what *)
(* was split.                                                              *)

\* The last n elements of s.
Suffix(s, n) == SubSeq(s, Len(s) - n + 1, Len(s))

LEMMA SuffixIs ==
  ASSUME NEW T, NEW s \in Seq(T), NEW n \in 0..Len(s)
  PROVE  /\ Suffix(s, n) \in Seq(T) /\ Len(Suffix(s, n)) = n
         /\ \A i \in 1..n : Suffix(s, n)[i] = s[Len(s) - n + i]
<1> DEFINE l == Len(s)
           m == l - n + 1
<1>1. l \in Nat /\ n \in Nat /\ m \in Int /\ l \in Int /\ l - m + 1 = n
  BY LenProperties
<1>2. \A i \in m..l : s[i] \in T
  <2>1. \A i \in m..l : i \in 1..Len(s)
    BY <1>1
  <2> QED
    BY <2>1, ElementOfSeq
<1>3. Suffix(s, n) = SubSeq(s, m, l)
  BY DEF Suffix
<1>4. \A i \in 1..n : m + i - 1 = l - n + i
  BY <1>1
<1> HIDE DEF m
<1>5. /\ SubSeq(s, m, l) \in Seq(T)
      /\ Len(SubSeq(s, m, l)) = IF m <= l THEN l - m + 1 ELSE 0
      /\ \A i \in 1..(l - m + 1) : SubSeq(s, m, l)[i] = s[m + i - 1]
  <2> HIDE DEF l
  <2> QED
    BY <1>1, <1>2, SubSeqProperties DEF l
<1>6. Len(Suffix(s, n)) = n
  BY <1>1, <1>3, <1>5
<1>7. \A i \in 1..n : Suffix(s, n)[i] = s[l - n + i]
  BY <1>1, <1>3, <1>4, <1>5
<1> QED
  BY <1>3, <1>5, <1>6, <1>7

\* The rest of a rest.
LEMMA SuffixOfSuffix ==
  ASSUME NEW T, NEW s \in Seq(T), NEW n \in 0..Len(s), NEW k \in 0..n
  PROVE  Suffix(Suffix(s, n), k) = Suffix(s, k)
<1> DEFINE r == Suffix(s, n)
           x == Suffix(r, k)
           y == Suffix(s, k)
           l == Len(s)
<1>1. l \in Nat /\ n \in Nat /\ k \in Nat /\ k \in 0..l /\ k <= n /\ n <= l
  BY LenProperties
<1>2. r \in Seq(T) /\ Len(r) = n /\ \A i \in 1..n : r[i] = s[l - n + i]
  BY SuffixIs
<1>3. y \in Seq(T) /\ Len(y) = k /\ \A i \in 1..k : y[i] = s[l - k + i]
  BY <1>1, SuffixIs
<1> HIDE DEF r, y
<1>4. x \in Seq(T) /\ Len(x) = k /\ \A i \in 1..k : x[i] = r[Len(r) - k + i]
  BY <1>1, <1>2, SuffixIs
<1> HIDE DEF x, l
<1>5. \A i \in 1..k : x[i] = y[i]
  <2> TAKE i \in 1..k
  <2> DEFINE j == n - k + i
  <2>1. j \in 1..n /\ Len(r) - k + i = j /\ l - n + j = l - k + i
    BY <1>1, <1>2
  <2>2. x[i] = r[j]
    BY <1>4, <2>1
  <2>3. r[j] = s[l - n + j]
    <3> HIDE DEF j
    <3> QED
      BY <1>2, <2>1
  <2> QED
    BY <1>3, <2>1, <2>2, <2>3
<1>6. x = y
  BY <1>3, <1>4, <1>5, SeqEqual
<1> QED
  BY <1>6 DEF x, y, r

IsAt(s, k, t) ==
  k \in Nat /\ Len(t) \in Nat /\ k + Len(t) <= Len(s) /\ SubSeq(s, k + 1, k + Len(t)) = t

LEMMA ElementOfCut ==
  ASSUME NEW T, NEW s \in Seq(T), NEW k, NEW t, IsAt(s, k, t), NEW j \in 1..Len(t)
  PROVE  s[k + j] = t[j]
<1> DEFINE m == k + 1
           l == k + Len(t)
<1> USE DEF IsAt
<1>1. m \in Int /\ l \in Int /\ j \in 1..(l - m + 1) /\ m + j - 1 = k + j /\ Len(s) \in Nat
  BY LenProperties
<1>2. \A i \in m..l : s[i] \in T
  <2>1. \A i \in m..l : i \in 1..Len(s)
    BY <1>1
  <2> QED
    BY <2>1, ElementOfSeq
<1>3. SubSeq(s, m, l) = t
  OBVIOUS
<1> HIDE DEF m, l
<1>4. \A i \in 1..(l - m + 1) : SubSeq(s, m, l)[i] = s[m + i - 1]
  BY <1>1, <1>2, SubSeqProperties
<1> QED
  BY <1>1, <1>3, <1>4

\* The first part of what holds the separator, and what is left.
LEMMA PartIs ==
  ASSUME NEW T, NEW s \in Seq(T), NEW m \in Seq(T), Len(m) >= 1, Occurrences(s, m) # {}
  PROVE  LET i == IndexOf(s, m)
         IN  /\ i \in Nat /\ i + Len(m) <= Len(s)
             /\ Part(s, m) \in Seq(T) /\ Occurrences(Part(s, m), m) = {}
             /\ s = Part(s, m) \o (m \o Suffix(s, Len(s) - (i + Len(m))))
<1> DEFINE O == Occurrences(s, m)
           i == IndexOf(s, m)
           a == Part(s, m)
           n == Len(s) - (i + Len(m))
           b == Suffix(s, n)
<1>1. Len(s) \in Nat /\ Len(m) \in Nat
  BY LenProperties
<1>2. O \in SUBSET Nat
  BY <1>1 DEF Occurrences
<1>3. i \in O /\ \A k \in O : i <= k
  <2>1. PICK h \in O : \A k \in O : h <= k
    <3> HIDE DEF O
    <3> QED
      BY <1>2, LeastNatural DEF O
  <2>2. Min(O) = h
    <3>1. O \in SUBSET Int
      BY <1>2
    <3> HIDE DEF O
    <3> QED
      BY <2>1, <3>1, MinIs
  <2>3. i = Min(O)
    BY Zenon DEF IndexOf
  <2> QED
    BY <2>1, <2>2, <2>3
<1>4. a = SubSeq(s, 1, i)
  BY Zenon DEF Part
<1>5. i \in Nat /\ i + Len(m) <= Len(s) /\ SubSeq(s, i + 1, i + Len(m)) = m
  <2>1. i \in 0..(Len(s) - Len(m)) /\ SubSeq(s, i + 1, i + Len(m)) = m
    BY <1>3 DEF Occurrences
  <2> QED
    BY <1>1, <2>1
<1> HIDE DEF i, a
<1>6. a \in Seq(T) /\ Len(a) = i /\ \A k \in 1..i : a[k] = s[k]
  <2>1. \A k \in 1..i : s[k] \in T
    <3>1. \A k \in 1..i : k \in 1..Len(s)
      BY <1>1, <1>5
    <3> QED
      BY <3>1, ElementOfSeq
  <2>2. 1 \in Int /\ i \in Int
    BY <1>5
  <2>3. /\ SubSeq(s, 1, i) \in Seq(T) /\ Len(SubSeq(s, 1, i)) = IF 1 <= i THEN i - 1 + 1 ELSE 0
        /\ \A k \in 1..(i - 1 + 1) : SubSeq(s, 1, i)[k] = s[1 + k - 1]
    BY <2>1, <2>2, SubSeqProperties
  <2>4. i - 1 + 1 = i /\ (~(1 <= i) => i = 0) /\ \A k \in 1..i : 1 + k - 1 = k
    BY <1>5
  <2> QED
    BY <1>4, <2>3, <2>4
<1>7. Occurrences(a, m) = {}
  <2> SUFFICES ASSUME NEW k \in Occurrences(a, m) PROVE FALSE
    OBVIOUS
  <2>1. k \in 0..(Len(a) - Len(m)) /\ SubSeq(a, k + 1, k + Len(m)) = m
    BY DEF Occurrences
  <2>2. k \in Nat /\ k + Len(m) <= i /\ k < i
    BY <1>1, <1>5, <1>6, <2>1
  <2>3. \A j \in 1..Len(m) : s[k + j] = m[j]
    <3> TAKE j \in 1..Len(m)
    <3>1. k + j \in 1..i
      BY <1>1, <1>5, <2>2
    <3>2. a[k + j] = m[j]
      <4>1. IsAt(a, k, m) /\ a \in Seq(T)
        BY <1>1, <1>6, <2>1, <2>2 DEF IsAt
      <4> QED
        BY <4>1, ElementOfCut
    <3> QED
      BY <1>6, <3>1, <3>2
  <2>4. SubSeq(s, k + 1, k + Len(m)) = m
    <3>1. k \in Nat /\ k + Len(m) <= Len(s) /\ \A j \in 1..Len(m) : s[k + j] = m[j]
      BY <1>1, <1>5, <2>2, <2>3
    <3> QED
      BY <3>1, SubSeqIs
  <2>5. k \in O
    <3>1. k \in 0..(Len(s) - Len(m))
      BY <1>1, <1>5, <2>2
    <3> QED
      BY <2>4, <3>1 DEF Occurrences
  <2> QED
    BY <1>3, <1>5, <2>2, <2>5
<1>8. s = a \o (m \o b)
  <2>1. n \in 0..Len(s) /\ n \in Nat /\ i + Len(m) + n = Len(s)
    BY <1>1, <1>5
  <2> HIDE DEF n
  <2>2. b \in Seq(T) /\ Len(b) = n /\ \A k \in 1..n : b[k] = s[Len(s) - n + k]
    BY <2>1, SuffixIs
  <2> HIDE DEF b
  <2> DEFINE z == a \o (m \o b)
  <2>3. /\ z \in Seq(T) /\ Len(z) = Len(a) + Len(m) + Len(b)
        /\ \A k \in 1..Len(a) : z[k] = a[k]
        /\ \A k \in 1..Len(m) : z[Len(a) + k] = m[k]
        /\ \A k \in 1..Len(b) : z[Len(a) + Len(m) + k] = b[k]
    <3>1. InThree(T, z, a, m, b)
      BY <1>6, <2>2, ThreeParts
    <3> HIDE DEF z
    <3> QED
      BY <3>1, Zenon DEF InThree
  <2> HIDE DEF z
  <2>4. Len(z) = Len(s)
    BY <1>6, <2>1, <2>2, <2>3
  <2>5. ASSUME NEW k \in 1..Len(s) PROVE s[k] = z[k]
    <3>1. CASE k <= i
      <4>1. k \in 1..i
        BY <1>1, <1>5, <3>1
      <4> QED
        BY <1>6, <2>3, <4>1
    <3>2. CASE i < k /\ k <= i + Len(m)
      <4> DEFINE j == k - i
      <4>1. j \in 1..Len(m) /\ k = i + j
        BY <1>1, <1>5, <3>2
      <4> HIDE DEF j
      <4>2. s[i + j] = m[j]
        <5>1. IsAt(s, i, m)
          BY <1>1, <1>5 DEF IsAt
        <5> QED
          BY <4>1, <5>1, ElementOfCut
      <4> QED
        BY <1>6, <2>3, <4>1, <4>2
    <3>3. CASE i + Len(m) < k
      <4> DEFINE j == k - (i + Len(m))
      <4>1. j \in 1..n /\ k = i + Len(m) + j /\ Len(s) - n + j = k
        BY <1>1, <1>5, <2>1, <3>3
      <4> HIDE DEF j
      <4>2. b[j] = s[k]
        BY <2>2, <4>1
      <4>3. z[i + Len(m) + j] = b[j]
        BY <1>6, <2>2, <2>3, <4>1
      <4> QED
        BY <4>1, <4>2, <4>3
    <3> QED
      BY <1>1, <1>5, <3>1, <3>2, <3>3
  <2>6. s = z
    BY <2>3, <2>4, <2>5, SeqEqual
  <2> QED
    BY <2>6 DEF z
<1> QED
  BY <1>5, <1>6, <1>7, <1>8 DEF a, i

LEMMA FlattenOne ==
  ASSUME NEW T, NEW x \in Seq(T)
  PROVE  FlattenSeq(<<x>>) = x
<1> DEFINE U == Seq(T)
           f == <<>>
           e == Append(f, x)
<1>1. <<x>> = e
  OBVIOUS
<1>2. f \in Seq(U) /\ FlattenSeq(f) = <<>>
  BY DEF FlattenSeq
<1> HIDE DEF f
<1>3. FlattenSeq(Append(f, x)) = FlattenSeq(f) \o x
  BY <1>2, FlattenAppend
<1>4. <<>> \o x = x
  BY ConcatEmptySeq
<1> QED
  BY <1>1, <1>2, <1>3, <1>4

LEMMA FlattenConcat ==
  ASSUME NEW T, NEW f \in Seq(Seq(T)), NEW h \in Seq(Seq(T))
  PROVE  FlattenSeq(f \o h) = FlattenSeq(f) \o FlattenSeq(h)
<1> DEFINE U == Seq(T)
           Q == {r \in Seq(U) : FlattenSeq(f \o r) = FlattenSeq(f) \o FlattenSeq(r)}
<1>1. <<>> \in Q
  <2>1. <<>> \in Seq(U) /\ f \o <<>> = f
    BY ConcatEmptySeq
  <2>2. FlattenSeq(f) \o <<>> = FlattenSeq(f)
    BY FlattenTyped, ConcatEmptySeq
  <2>3. FlattenSeq(<<>>) = <<>>
    BY DEF FlattenSeq
  <2> QED
    BY <2>1, <2>2, <2>3
<1>2. ASSUME NEW r \in Seq(U), NEW e \in U, r \in Q
      PROVE  Append(r, e) \in Q
  <2>1. f \o r \in Seq(U) /\ Append(r, e) \in Seq(U)
    BY ConcatProperties, AppendOne
  <2>2. FlattenSeq(f \o Append(r, e)) = FlattenSeq(f \o r) \o e
    <3>1. f \o Append(r, e) = Append(f \o r, e)
      BY ConcatAppend
    <3>2. FlattenSeq(Append(f \o r, e)) = FlattenSeq(f \o r) \o e
      BY <2>1, FlattenAppend
    <3> QED
      BY <3>1, <3>2
  <2>3. FlattenSeq(Append(r, e)) = FlattenSeq(r) \o e
    BY FlattenAppend
  <2>4. (FlattenSeq(f) \o FlattenSeq(r)) \o e = FlattenSeq(f) \o (FlattenSeq(r) \o e)
    <3>1. FlattenSeq(f) \in Seq(T) /\ FlattenSeq(r) \in Seq(T) /\ e \in Seq(T)
      BY FlattenTyped
    <3> QED
      BY <3>1, ConcatAssociative
  <2>5. FlattenSeq(f \o r) = FlattenSeq(f) \o FlattenSeq(r)
    BY <1>2
  <2> QED
    BY <2>1, <2>2, <2>3, <2>4, <2>5
<1> HIDE DEF Q
<1>3. Seq(U) \subseteq Q
  BY <1>1, <1>2, SeqInduction
<1> QED
  BY <1>3 DEF Q

\* The parts with the separator between them, as IdsAreListed joins them.
JoinField(p, m, k) == IF k = 1 THEN p[k] ELSE m \o p[k]
Joint(p, m) == [k \in DOMAIN p |-> JoinField(p, m, k)]

LEMMA JointTyped ==
  ASSUME NEW T, NEW p \in Seq(Seq(T)), NEW m \in Seq(T)
  PROVE  /\ Joint(p, m) \in Seq(Seq(T)) /\ Len(Joint(p, m)) = Len(p)
         /\ \A k \in 1..Len(p) : Joint(p, m)[k] = JoinField(p, m, k)
<1> DEFINE n == Len(p)
           U == Seq(T)
<1>1. n \in Nat /\ DOMAIN p = 1..n
  BY LenProperties
<1>2. \A k \in 1..n : p[k] \in Seq(T) /\ m \o p[k] \in Seq(T)
  <2> TAKE k \in 1..n
  <2>1. p[k] \in Seq(T)
    BY ElementOfSeq
  <2> QED
    BY <2>1, ConcatProperties
<1>3. \A k \in 1..n : JoinField(p, m, k) \in U
  BY <1>2 DEF JoinField
<1> HIDE DEF n, U
<1>4. Joint(p, m) \in [1..n -> U] /\ \A k \in 1..n : Joint(p, m)[k] = JoinField(p, m, k)
  BY <1>1, <1>3, Zenon DEF Joint
<1>5. Joint(p, m) \in Seq(U) /\ Len(Joint(p, m)) = n
  BY <1>1, <1>4
<1> QED
  BY <1>4, <1>5 DEF n, U

LEMMA JointOne ==
  ASSUME NEW T, NEW x \in Seq(T), NEW m \in Seq(T)
  PROVE  FlattenSeq(Joint(<<x>>, m)) = x
<1> DEFINE p == <<x>>
<1>1. p \in Seq(Seq(T)) /\ Len(p) = 1 /\ p[1] = x
  OBVIOUS
<1>2. p = <<x>>
  OBVIOUS
<1> HIDE DEF p
<1>3. /\ Joint(p, m) \in Seq(Seq(T)) /\ Len(Joint(p, m)) = 1
      /\ \A k \in 1..1 : Joint(p, m)[k] = JoinField(p, m, k)
  BY <1>1, JointTyped
<1>4. \A k \in 1..1 : Joint(p, m)[k] = p[k]
  BY <1>3 DEF JoinField
<1>5. Joint(p, m) = p
  BY <1>1, <1>3, <1>4, SeqEqual
<1>6. FlattenSeq(<<x>>) = x
  BY FlattenOne
<1> QED
  BY <1>2, <1>5, <1>6

LEMMA ConsIs ==
  ASSUME NEW S, NEW x \in S, NEW p \in Seq(S)
  PROVE  /\ <<x>> \o p \in Seq(S) /\ Len(<<x>> \o p) = Len(p) + 1
         /\ (<<x>> \o p)[1] = x
         /\ \A k \in 1..Len(p) : (<<x>> \o p)[k + 1] = p[k]
<1> DEFINE y == <<x>>
           c == y \o p
<1>1. y \in Seq(S) /\ Len(y) = 1 /\ y[1] = x /\ Len(p) \in Nat
  BY LenProperties
<1> HIDE DEF y
<1>2. /\ c \in Seq(S) /\ Len(c) = Len(y) + Len(p)
      /\ \A i \in 1 .. Len(y) + Len(p) : c[i] = IF i <= Len(y) THEN y[i] ELSE p[i - Len(y)]
  BY <1>1, ConcatProperties
<1> HIDE DEF c
<1>3. Len(c) = Len(p) + 1 /\ c[1] = x
  BY <1>1, <1>2
<1>4. ASSUME NEW k \in 1..Len(p) PROVE c[k + 1] = p[k]
  <2> DEFINE j == k + 1
  <2>1. j \in 1..(Len(y) + Len(p)) /\ ~(j <= Len(y)) /\ j - Len(y) = k
    BY <1>1
  <2> HIDE DEF j
  <2>2. c[j] = p[k]
    BY <1>2, <2>1
  <2> QED
    BY <2>2 DEF j
<1> QED
  BY <1>2, <1>3, <1>4 DEF c, y

Three(T, a, b, c) == a \in Seq(T) /\ b \in Seq(T) /\ c \in Seq(T)
Associative(a, b, c) == (a \o b) \o c = a \o (b \o c)

LEMMA ThreeAssociative ==
  ASSUME NEW T, NEW a, NEW b, NEW c, Three(T, a, b, c)
  PROVE  Associative(a, b, c)
<1>1. a \in Seq(T) /\ b \in Seq(T) /\ c \in Seq(T)
  BY DEF Three
<1> QED
  BY <1>1, ConcatAssociative DEF Associative

Joinable(T, a, p, m) ==
  a \in Seq(T) /\ p \in Seq(Seq(T)) /\ p # <<>> /\ m \in Seq(T)

JoinsInFront(a, p, m) ==
  FlattenSeq(Joint(<<a>> \o p, m)) = a \o (m \o FlattenSeq(Joint(p, m)))

\* One more part in front.
LEMMA JointMore ==
  ASSUME NEW T, NEW a, NEW p, NEW m, Joinable(T, a, p, m)
  PROVE  JoinsInFront(a, p, m)
<1> USE DEF Joinable
<1> DEFINE U == Seq(T)
           n == Len(p)
           q == <<a>> \o p
           B == [k \in 1..(n - 1) |-> m \o p[k + 1]]
           x == p[1]
           mx == m \o x
           J == Joint(p, m)
           K == Joint(q, m)
<1>1. n \in Nat /\ n >= 1
  BY EmptySeq
<1>2. /\ q \in Seq(U) /\ Len(q) = n + 1 /\ q[1] = a
      /\ \A k \in 1..n : q[k + 1] = p[k]
  BY ConsIs
<1>3. \A k \in 1..n : p[k] \in U /\ m \o p[k] \in U
  <2> TAKE k \in 1..n
  <2>1. p[k] \in Seq(T)
    BY ElementOfSeq
  <2> QED
    BY <2>1, ConcatProperties
<1>4. /\ B \in Seq(U) /\ Len(B) = n - 1
      /\ \A k \in 1..(n - 1) : B[k] = m \o p[k + 1]
  <2>1. \A k \in 1..(n - 1) : m \o p[k + 1] \in U
    <3> TAKE k \in 1..(n - 1)
    <3>1. k + 1 \in 1..n
      BY <1>1
    <3> QED
      BY <1>3, <3>1
  <2> HIDE DEF n, U
  <2>2. B \in [1..(n - 1) -> U] /\ \A k \in 1..(n - 1) : B[k] = m \o p[k + 1]
    BY <2>1, Zenon
  <2>3. n - 1 \in Nat
    BY <1>1
  <2> DEFINE i == n - 1
  <2>4. B \in [1..i -> U] /\ i \in Nat
    BY <2>2, <2>3
  <2> HIDE DEF B, i
  <2>5. B \in Seq(U) /\ Len(B) = i
    BY <2>4
  <2> QED
    BY <2>2, <2>5 DEF i
<1>5. x \in U /\ mx \in U
  BY <1>1, <1>3
<1>6. /\ J \in Seq(U) /\ Len(J) = n
      /\ \A k \in 1..n : J[k] = JoinField(p, m, k)
  BY JointTyped
<1>7. /\ K \in Seq(U) /\ Len(K) = n + 1
      /\ \A k \in 1..(n + 1) : K[k] = JoinField(q, m, k)
  <2> HIDE DEF q
  <2>1. /\ K \in Seq(U) /\ Len(K) = Len(q)
        /\ \A k \in 1..Len(q) : K[k] = JoinField(q, m, k)
    BY <1>2, JointTyped
  <2> QED
    BY <1>2, <2>1
<1> HIDE DEF q, B, J, K, mx, x, n
<1>8. J = <<x>> \o B
  <2> DEFINE c == <<x>> \o B
  <2>1. /\ c \in Seq(U) /\ Len(c) = Len(B) + 1 /\ c[1] = x
        /\ \A k \in 1..Len(B) : c[k + 1] = B[k]
    <3> HIDE DEF U
    <3> QED
      BY <1>4, <1>5, ConsIs
  <2> HIDE DEF c
  <2>2. Len(c) = n
    BY <1>1, <1>4, <2>1
  <2>3. ASSUME NEW k \in 1..n PROVE J[k] = c[k]
    <3>1. CASE k = 1
      BY <1>6, <2>1, <3>1 DEF JoinField, x
    <3>2. CASE k # 1
      <4> DEFINE i == k - 1
      <4>1. i \in 1..(n - 1) /\ i + 1 = k
        BY <1>1, <3>2
      <4> HIDE DEF i
      <4>2. c[k] = B[i] /\ B[i] = m \o p[k]
        BY <1>4, <2>1, <4>1
      <4>3. J[k] = m \o p[k]
        BY <1>6, <3>2 DEF JoinField
      <4> QED
        BY <4>2, <4>3
    <3> QED
      BY <3>1, <3>2
  <2>4. J = c
    BY <1>6, <2>1, <2>2, <2>3, SeqEqual
  <2> QED
    BY <2>4 DEF c
<1>9. K = <<a>> \o (<<mx>> \o B)
  <2> DEFINE c == <<mx>> \o B
             d == <<a>> \o c
  <2>1. /\ c \in Seq(U) /\ Len(c) = Len(B) + 1 /\ c[1] = mx
        /\ \A k \in 1..Len(B) : c[k + 1] = B[k]
    <3> HIDE DEF U
    <3> QED
      BY <1>4, <1>5, ConsIs
  <2> HIDE DEF c
  <2>2. /\ d \in Seq(U) /\ Len(d) = Len(c) + 1 /\ d[1] = a
        /\ \A k \in 1..Len(c) : d[k + 1] = c[k]
    BY <2>1, ConsIs
  <2> HIDE DEF d
  <2>3. Len(d) = n + 1 /\ Len(c) = n
    BY <1>1, <1>4, <2>1, <2>2
  <2>4. ASSUME NEW k \in 1..(n + 1) PROVE K[k] = d[k]
    <3>1. CASE k = 1
      BY <1>2, <1>7, <2>2, <3>1 DEF JoinField
    <3>2. CASE k = 2
      <4>1. K[2] = m \o q[2]
        BY <1>1, <1>7, <3>2 DEF JoinField
      <4>2. q[1 + 1] = p[1] /\ d[1 + 1] = c[1]
        BY <1>1, <1>2, <2>2, <2>3
      <4>3. 1 + 1 = 2
        OBVIOUS
      <4> QED
        BY <2>1, <3>2, <4>1, <4>2, <4>3 DEF mx, x
    <3>3. CASE k # 1 /\ k # 2
      <4> DEFINE i == k - 1
                 j == k - 2
      <4>1. i \in 1..n /\ i + 1 = k /\ j \in 1..(n - 1) /\ j + 1 = i
        BY <1>1, <3>3
      <4> HIDE DEF i, j
      <4>2. d[k] = c[i] /\ c[i] = B[j] /\ B[j] = m \o p[i] /\ q[k] = p[i]
        BY <1>2, <1>4, <2>1, <2>2, <2>3, <4>1
      <4>3. K[k] = m \o q[k]
        BY <1>7, <3>3 DEF JoinField
      <4> QED
        BY <4>2, <4>3
    <3> QED
      BY <3>1, <3>2, <3>3
  <2>5. K = d
    BY <1>7, <2>2, <2>3, <2>4, SeqEqual
  <2> QED
    BY <2>5 DEF c, d
<1> DEFINE F == FlattenSeq(B)
<1>10. F \in Seq(T)
  BY <1>4, FlattenTyped
<1> HIDE DEF F
<1>11. ASSUME NEW y \in U, NEW f \in Seq(U) PROVE FlattenSeq(<<y>> \o f) = y \o FlattenSeq(f)
  <2>1. <<y>> \in Seq(Seq(T)) /\ f \in Seq(Seq(T)) /\ FlattenSeq(<<y>>) = y
    BY FlattenOne
  <2>2. FlattenSeq(<<y>> \o f) = FlattenSeq(<<y>>) \o FlattenSeq(f)
    BY <2>1, FlattenConcat
  <2> QED
    BY <2>1, <2>2
<1>12. FlattenSeq(J) = x \o F
  BY <1>4, <1>5, <1>8, <1>11 DEF F
<1>13. FlattenSeq(K) = a \o (mx \o F)
  <2>1. <<mx>> \o B \in Seq(U) /\ FlattenSeq(<<mx>> \o B) = mx \o F
    BY <1>4, <1>5, <1>11, ConsIs DEF F
  <2> QED
    BY <1>9, <1>11, <2>1
<1>14. mx \o F = m \o (x \o F)
  <2>1. Three(T, m, x, F)
    BY <1>5, <1>10 DEF Three
  <2>2. Associative(m, x, F)
    BY <2>1, ThreeAssociative
  <2> QED
    BY <2>2 DEF mx, Associative
<1> QED
  BY <1>12, <1>13, <1>14 DEF JoinsInFront, J, K, q

\* parts of Split, one by one: g[i] are those of the last i elements of s.
PartsField(s, m, g, i) ==
  LET rest == SubSeq(s, Len(s) - i + 1, Len(s))
  IN  IF Occurrences(rest, m) = {} THEN <<rest>>
      ELSE <<Part(rest, m)>> \o g[i - (IndexOf(rest, m) + Len(m))]
Parts(s, m, g, n) == g = [i \in 0..n |-> PartsField(s, m, g, i)]

LEMMA PartsShorter ==
  ASSUME NEW T, NEW s \in Seq(T), NEW m \in Seq(T), Len(m) >= 1, NEW i \in 0..Len(s),
         Occurrences(Suffix(s, i), m) # {}
  PROVE  i - (IndexOf(Suffix(s, i), m) + Len(m)) \in 0..(i - 1)
<1> DEFINE r == Suffix(s, i)
           k == IndexOf(r, m)
<1>1. r \in Seq(T) /\ Len(r) = i /\ Len(m) \in Nat /\ i \in Nat
  BY SuffixIs, LenProperties
<1>2. k \in Nat /\ k + Len(m) <= i
  <2> HIDE DEF r
  <2> QED
    BY <1>1, PartIs DEF r
<1> HIDE DEF k
<1>3. i - (k + Len(m)) \in 0..(i - 1)
  BY <1>1, <1>2
<1> QED
  BY <1>3 DEF k

LEMMA PartsExist ==
  ASSUME NEW T, NEW s \in Seq(T), NEW m \in Seq(T), Len(m) >= 1
  PROVE  \E g : Parts(s, m, g, Len(s))
<1> DEFINE Lacking == {n \in Nat : n <= Len(s) /\ ~\E g : Parts(s, m, g, n)}
<1>0. Len(s) \in Nat
  BY LenProperties
<1> SUFFICES ASSUME Lacking # {} PROVE FALSE
  BY <1>0
<1>1. PICK n \in Lacking : \A k \in Lacking : n <= k
  BY LeastNatural
<1>2. PICK g : n # 0 => Parts(s, m, g, n - 1)
  <2>1. CASE n = 0
    BY <2>1
  <2>2. CASE n # 0
    BY <1>1, <2>2
  <2> QED
    BY <2>1, <2>2
<1> DEFINE longer == [i \in 0..n |-> IF i = n THEN PartsField(s, m, g, n) ELSE g[i]]
<1>3. ASSUME NEW i \in 0..n PROVE longer[i] = PartsField(s, m, longer, i)
  <2> DEFINE r == Suffix(s, i)
             h == i - (IndexOf(r, m) + Len(m))
  <2>1. ASSUME Occurrences(r, m) # {} PROVE longer[h] = g[h]
    <3>1. i \in 0..Len(s)
      BY <1>0, <1>1
    <3>2. h \in 0..(i - 1)
      BY <2>1, <3>1, PartsShorter
    <3> HIDE DEF h
    <3> QED
      BY <1>1, <3>2
  <2>2. \A f : PartsField(s, m, f, i) =
          IF Occurrences(r, m) = {} THEN <<r>> ELSE <<Part(r, m)>> \o f[h]
    BY Zenon DEF PartsField, Suffix
  <2> HIDE DEF r, h
  <2>3. longer[i] = IF i = n THEN PartsField(s, m, g, n) ELSE g[i]
    OBVIOUS
  <2> HIDE DEF longer
  <2>4. PartsField(s, m, longer, i) = PartsField(s, m, g, i)
    <3>1. CASE Occurrences(r, m) = {}
      BY <2>2, <3>1
    <3>2. CASE Occurrences(r, m) # {}
      BY <2>1, <2>2, <3>2
    <3> QED
      BY <3>1, <3>2
  <2>5. i # n => g[i] = PartsField(s, m, g, i)
    <3> SUFFICES ASSUME i # n PROVE g[i] = PartsField(s, m, g, i)
      OBVIOUS
    <3>1. n # 0 /\ i \in 0..(n - 1)
      BY <1>1
    <3> QED
      BY <1>2, <3>1 DEF Parts
  <2> QED
    BY <2>3, <2>4, <2>5
<1>4. longer = [i \in 0..n |-> PartsField(s, m, longer, i)]
  <2>1. longer = [i \in 0..n |-> longer[i]]
    OBVIOUS
  <2> HIDE DEF longer
  <2> QED
    BY <1>3, <2>1
<1> QED
  BY <1>1, <1>4 DEF Parts

LEMMA SplitIsParts ==
  ASSUME NEW T, NEW s \in Seq(T), NEW m \in Seq(T), Len(m) >= 1
  PROVE  \E g : Parts(s, m, g, Len(s)) /\ Split(s, m) = g[Len(s)]
<1>1. \E g : Parts(s, m, g, Len(s))
  BY PartsExist
<1> QED
  BY <1>1, Zenon DEF Split, Parts, PartsField

\* p are the parts of s: nothing is lost, added or left to split.
AreParts(T, s, m, p) ==
  /\ p \in Seq(Seq(T)) /\ p # <<>>
  /\ FlattenSeq(Joint(p, m)) = s
  /\ \A k \in 1..Len(p) : Occurrences(p[k], m) = {}

LEMMA OnePart ==
  ASSUME NEW T, NEW s \in Seq(T), NEW m \in Seq(T), Occurrences(s, m) = {}
  PROVE  AreParts(T, s, m, <<s>>)
<1>1. FlattenSeq(Joint(<<s>>, m)) = s
  BY JointOne
<1>2. <<s>> \in Seq(Seq(T)) /\ <<s>> # <<>> /\ Len(<<s>>) = 1 /\ <<s>>[1] = s
  OBVIOUS
<1> DEFINE p == <<s>>
<1> HIDE DEF p
<1>3. \A k \in 1..1 : p[k] = s
  BY <1>2 DEF p
<1>4. \A k \in 1..Len(p) : Occurrences(p[k], m) = {}
  BY <1>2, <1>3 DEF p
<1> QED
  BY <1>1, <1>2, <1>4, Zenon DEF AreParts, p

LEMMA MoreParts ==
  ASSUME NEW T, NEW s, NEW a \in Seq(T), NEW m \in Seq(T), NEW r, NEW p,
         Occurrences(a, m) = {}, AreParts(T, r, m, p), s = a \o (m \o r)
  PROVE  AreParts(T, s, m, <<a>> \o p)
<1> DEFINE q == <<a>> \o p
           U == Seq(T)
<1>1. /\ p \in Seq(U) /\ p # <<>> /\ FlattenSeq(Joint(p, m)) = r
      /\ \A k \in 1..Len(p) : Occurrences(p[k], m) = {}
  BY Zenon DEF AreParts
<1>2. /\ q \in Seq(U) /\ Len(q) = Len(p) + 1 /\ q[1] = a
      /\ \A k \in 1..Len(p) : q[k + 1] = p[k]
  BY <1>1, ConsIs
<1>3. FlattenSeq(Joint(q, m)) = s
  <2>1. p \in Seq(Seq(T)) /\ p # <<>> /\ FlattenSeq(Joint(p, m)) = r
    BY <1>1
  <2>2. FlattenSeq(Joint(<<a>> \o p, m)) = a \o (m \o FlattenSeq(Joint(p, m)))
    <3>1. Joinable(T, a, p, m)
      BY <2>1 DEF Joinable
    <3>2. JoinsInFront(a, p, m)
      BY <3>1, JointMore
    <3> QED
      BY <3>2, Zenon DEF JoinsInFront
  <2> QED
    BY <2>1, <2>2
<1> HIDE DEF q
<1>4. Len(p) \in Nat
  BY <1>1, LenProperties
<1>5. q # <<>>
  BY <1>2, <1>4
<1>6. ASSUME NEW k \in 1..Len(q) PROVE Occurrences(q[k], m) = {}
  <2>1. CASE k = 1
    BY <1>2, <2>1
  <2>2. CASE k # 1
    <3> DEFINE i == k - 1
    <3>1. i \in 1..Len(p) /\ i + 1 = k
      BY <1>2, <1>4, <2>2
    <3> HIDE DEF i
    <3> QED
      BY <1>1, <1>2, <3>1
  <2> QED
    BY <2>1, <2>2
<1>7. AreParts(T, s, m, q)
  BY <1>2, <1>3, <1>5, <1>6, Zenon DEF AreParts
<1> QED
  BY <1>7 DEF q

LEMMA SplitIs ==
  ASSUME NEW T, NEW s \in Seq(T), NEW m \in Seq(T), Len(m) >= 1
  PROVE  AreParts(T, s, m, Split(s, m))
<1>1. PICK g : Parts(s, m, g, Len(s)) /\ Split(s, m) = g[Len(s)]
  BY SplitIsParts
<1>2. Len(s) \in Nat /\ Len(m) \in Nat
  BY LenProperties
<1> DEFINE Bad == {i \in Nat : i <= Len(s) /\ ~AreParts(T, Suffix(s, i), m, g[i])}
<1>3. Bad = {}
  <2> SUFFICES ASSUME Bad # {} PROVE FALSE
    OBVIOUS
  <2>1. PICK i \in Bad : \A k \in Bad : i <= k
    BY LeastNatural
  <2> DEFINE r == Suffix(s, i)
             n == IndexOf(r, m) + Len(m)
             h == i - n
  <2>2. i \in 0..Len(s) /\ i \in Nat
    BY <1>2, <2>1
  <2>3. g[i] = IF Occurrences(r, m) = {} THEN <<r>> ELSE <<Part(r, m)>> \o g[h]
    <3>1. g[i] = PartsField(s, m, g, i)
      BY <1>1, <2>2 DEF Parts
    <3> QED
      BY <3>1, Zenon DEF PartsField, Suffix
  <2>4. r \in Seq(T) /\ Len(r) = i
    BY <2>2, SuffixIs
  <2>5. CASE Occurrences(r, m) = {}
    <3> HIDE DEF r
    <3>1. AreParts(T, r, m, <<r>>)
      BY <2>4, <2>5, OnePart
    <3> QED
      BY <2>1, <2>3, <2>5, <3>1 DEF r
  <2>6. CASE Occurrences(r, m) # {}
    <3>1. h \in 0..(i - 1)
      BY <2>2, <2>6, PartsShorter
    <3>2. /\ Part(r, m) \in Seq(T) /\ Occurrences(Part(r, m), m) = {}
          /\ r = Part(r, m) \o (m \o Suffix(r, Len(r) - n))
      <4> HIDE DEF r
      <4> QED
        BY <2>4, <2>6, PartIs
    <3>3. Suffix(r, Len(r) - n) = Suffix(s, h)
      <4>1. Len(r) - n = h
        BY <2>4
      <4>2. h \in 0..i
        BY <2>2, <3>1
      <4> HIDE DEF h, n
      <4>3. Suffix(r, h) = Suffix(s, h)
        BY <2>2, <4>2, SuffixOfSuffix
      <4> QED
        BY <4>1, <4>3
    <3>4. AreParts(T, Suffix(s, h), m, g[h])
      <4> HIDE DEF h
      <4>1. h \in Nat /\ h < i /\ h <= Len(s)
        BY <1>2, <2>2, <3>1
      <4> QED
        BY <2>1, <4>1
    <3> DEFINE a == Part(r, m)
    <3>5. r = a \o (m \o Suffix(s, h)) /\ a \in Seq(T) /\ Occurrences(a, m) = {}
      BY <3>2, <3>3
    <3>6. g[i] = <<a>> \o g[h]
      BY <2>3, <2>6
    <3>7. ~AreParts(T, r, m, g[i])
      BY <2>1
    <3> HIDE DEF a, h, r
    <3>8. AreParts(T, r, m, <<a>> \o g[h])
      BY <3>4, <3>5, MoreParts
    <3> QED
      BY <3>6, <3>7, <3>8
  <2> QED
    BY <2>5, <2>6
<1>4. AreParts(T, Suffix(s, Len(s)), m, g[Len(s)])
  BY <1>2, <1>3
<1>5. Suffix(s, Len(s)) = s
  <2>1. Len(s) - Len(s) + 1 = 1
    BY <1>2
  <2> QED
    BY <2>1, SubSeqFull DEF Suffix
<1> QED
  BY <1>1, <1>4, <1>5

------------------------------------------------------------------------------
(* The ids of the home page.                                               *)

\* The name of the list and its bracket: the marker the code searches is the
\* name, and both are skipped.
LEMMA ListCut ==
  ASSUME PageIInv, First("list") <= Len(page)
  PROVE  LET s == Text(page)
         IN  Substring(s, IndexOf(s, <<<<"list", 1>>>>) + 2, Len(s)) =
               {Between(First("list"), Len(page) + 1)}
<1> DEFINE b == Len(page) + 1
           s == Text(page)
           a == FirstIn({"list"}, 0, b)
           y == Symbols("list")
           c == <<"list", 1>>
           d == <<"list", 2>>
           A == Between(0, a)
           B == Between(a, b)
<1>1. /\ page \in Seq(Piece) /\ Len(page) \in Nat /\ Between(0, b) = s
      /\ 0 \in Nat /\ b \in Nat /\ 0 < b /\ b <= Len(page) + 1
  BY WholePage
<1>2. a <= Len(page) /\ a = First("list")
  BY DEF First
<1>3. /\ a \in (0 + 1)..b /\ (a < b => page[a] \in {"list"})
      /\ \A j \in (0 + 1)..(a - 1) : page[j] \notin {"list"}
  <2> HIDE DEF b
  <2> QED
    BY <1>1, FirstInFinds
<1> HIDE DEF a
<1>4. a \in Nat /\ a \in (0 + 1)..(b - 1) /\ a < b /\ page[a] = "list" /\ a <= Len(page) + 1
  BY <1>1, <1>2, <1>3
<1>5. s = A \o (y \o B)
  <2>1. Between(0, b) = Between(0, a) \o (Symbols(page[a]) \o Between(a, b))
    BY <1>1, <1>4, BetweenSplit
  <2> QED
    BY <1>1, <1>4, <2>1
<1>6. A \in Seq(Sym) /\ B \in Seq(Sym)
  BY <1>1, <1>4, BetweenTyped
<1>7. page[a] \in Piece
  BY <1>1, <1>4, ElementOfSeq
<1>8. y \in Seq(Sym) /\ y = <<c, d>> /\ c = Opens("list")
  <2>1. y \in Seq(Sym)
    BY <1>4, <1>7, SymbolsTyped
  <2>2. y = <<c, d>>
    BY DEF Symbols
  <2>3. c = Opens("list")
    BY DEF Opens, LongMarkers
  <2> QED
    BY <2>1, <2>2, <2>3
<1>9. Lacks(A, Opens("list"))
  <2>1. \A j \in (0 + 1)..(a - 1) : page[j] # "list"
    BY <1>3
  <2> QED
    BY <1>1, <1>4, <2>1, BetweenLacks
<1> DEFINE C == <<c>>
           E == <<d>>
           D == E \o B
<1> HIDE DEF s, A, B, b, c, d
<1>10. /\ C \in Seq(Sym) /\ E \in Seq(Sym) /\ Len(C) = 1 /\ C[1] = c
       /\ Len(y) = 2 /\ y[1] = c /\ y = C \o E
  <2> HIDE DEF y
  <2>1. y[1] \in Sym /\ y[2] \in Sym
    BY <1>8, ElementOfSeq
  <2>2. c \in Sym /\ d \in Sym
    BY <1>8, <2>1
  <2> QED
    BY <1>8, <2>2
<1> HIDE DEF y
<1> HIDE DEF C, E
<1>11. D \in Seq(Sym) /\ y \o B = C \o D
  <2>0. C \in Seq(Sym) /\ E \in Seq(Sym) /\ B \in Seq(Sym)
    BY <1>6, <1>10
  <2>1. E \o B \in Seq(Sym)
    BY <2>0, ConcatProperties
  <2>2. (C \o E) \o B = C \o (E \o B)
    BY <2>0, ConcatAssociative
  <2> QED
    BY <1>10, <2>1, <2>2
<1> HIDE DEF D
<1>12. IsCut(Sym, s, A, C, D)
  <2>1. s = A \o (C \o D)
    BY <1>5, <1>11
  <2>2. Len(C) >= 1
    BY <1>10
  <2>3. Lacks(A, C[1])
    BY <1>8, <1>9, <1>10, Zenon
  <2> QED
    BY <1>6, <1>10, <1>11, <2>1, <2>2, <2>3, Zenon DEF IsCut
<1>13. IsCut(Sym, s, A, y, B)
  <2>1. Len(y) >= 1
    BY <1>10
  <2>2. Lacks(A, y[1])
    BY <1>8, <1>9, <1>10, Zenon
  <2> QED
    BY <1>5, <1>6, <1>8, <2>1, <2>2, Zenon DEF IsCut
<1>14. IndexOf(s, C) = Len(A)
  BY <1>12, CutFinds
<1>15. IndexOf(s, y) = Len(A) /\ From(s, y) = {B}
  BY <1>13, CutFinds
<1>16. Substring(s, IndexOf(s, C) + 2, Len(s)) = {B}
  BY <1>10, <1>14, <1>15 DEF From
<1> QED
  BY <1>2, <1>16 DEF s, c, C, B, b

LEMMA SepTyped == Symbols("sep") \in Seq(Sym) /\ Len(Symbols("sep")) >= 1
<1>1. "sep" \in Piece
  BY DEF Piece
<1> QED
  BY <1>1, SymbolsTyped

LEMMA IdsCut ==
  ASSUME PageIInv
  PROVE  IdsAreListed
<1> DEFINE b == Len(page) + 1
           s == Text(page)
           a == First("list")
           e == FirstIn({"end"}, a, b)
           t == Between(a, b)
           x == Between(a, e)
           y == Symbols("sep")
           Joined(ids) == FlattenSeq([k \in DOMAIN ids |->
                            IF k = 1 THEN ids[k] ELSE y \o ids[k]])
           Short == Len(t) < LogLen
<1> SUFFICES ASSUME kind = "home", a <= Len(page)
             PROVE  /\ IdList(s) = {} <=> (e > Len(page) \/ Short)
                    /\ \A ids \in IdList(s) :
                         /\ Joined(ids) = x
                         /\ \A k \in DOMAIN ids : Occurrences(ids[k], y) = {}
  BY Zenon DEF IdsAreListed
<1>1. page \in Seq(Piece) /\ Len(page) \in Nat /\ b \in Nat
  BY WholePage
<1>2. a \in Nat /\ a < b
  <2>1. FirstIn({"list"}, 0, b) \in (0 + 1)..b
    <3>1. 0 \in Nat /\ 0 < b
      BY <1>1
    <3> HIDE DEF b
    <3> QED
      BY <1>1, <3>1, FirstInFinds
  <2> QED
    BY <1>1, <2>1 DEF First
<1>3. Substring(s, IndexOf(s, <<<<"list", 1>>>>) + 2, Len(s)) = {t}
  BY ListCut, Zenon
<1>4. e \in (a + 1)..b /\ UpTo(t, Symbols("end")) = IF e = b THEN {} ELSE {x}
  <2>1. CutAtTag(a, b, "end")
    BY <1>1, <1>2, TagCut
  <2> QED
    BY <2>1, Zenon DEF CutAtTag
<1>5. t \in Seq(Sym) /\ Len(t) \in Nat /\ x \in Seq(Sym)
  <2>1. b <= Len(page) + 1
    BY <1>1
  <2>2. e \in Nat /\ e <= Len(page) + 1
    BY <1>1, <1>2, <1>4
  <2> HIDE DEF a, b, e
  <2> QED
    BY <1>1, <1>2, <2>1, <2>2, BetweenTyped
<1> HIDE DEF s, t, x, e, a, b, y
<1>6. Substring(t, 0, LogLen) # {} <=> ~Short
  <2>1. Short => Substring(t, 0, LogLen) = {}
    BY <1>5, LogAssumption DEF Substring
  <2>2. ~Short => Substring(t, 0, LogLen) = {SubSeq(t, 0 + 1, LogLen)}
    BY <1>5, LogAssumption DEF Substring
  <2> HIDE DEF Short
  <2> QED
    BY <2>1, <2>2
<1> HIDE DEF Short
<1>7. IdList(s) = IF e = b \/ Short THEN {} ELSE {Split(x, Symbols("sep"))}
  <2>1. IdList(s) = {Split(ids, Symbols("sep")) :
          ids \in UNION {UpTo(h, Symbols("end")) : h \in {h \in {t} : Substring(h, 0, LogLen) # {}}}}
    BY <1>3, Zenon DEF IdList
  <2>2. CASE Short
    <3>1. {h \in {t} : Substring(h, 0, LogLen) # {}} = {}
      BY <1>6, <2>2
    <3> QED
      BY <2>1, <2>2, <3>1, Zenon
  <2>3. CASE ~Short
    <3>1. {h \in {t} : Substring(h, 0, LogLen) # {}} = {t}
      BY <1>6, <2>3
    <3>2. UNION {UpTo(h, Symbols("end")) : h \in {t}} = UpTo(t, Symbols("end"))
      OBVIOUS
    <3>3. IdList(s) = {Split(ids, Symbols("sep")) : ids \in UpTo(t, Symbols("end"))}
      BY <2>1, <3>1, <3>2, Zenon
    <3> QED
      BY <1>4, <2>3, <3>3, Zenon
  <2> QED
    BY <2>2, <2>3
<1>8. AreParts(Sym, x, y, Split(x, y)) /\ Len(Split(x, y)) \in Nat
      /\ DOMAIN Split(x, y) = 1..Len(Split(x, y))
  <2>1. y \in Seq(Sym) /\ Len(y) >= 1
    BY SepTyped DEF y
  <2>2. AreParts(Sym, x, y, Split(x, y))
    BY <1>5, <2>1, SplitIs
  <2>3. Split(x, y) \in Seq(Seq(Sym))
    BY <2>2, Zenon DEF AreParts
  <2> QED
    BY <2>2, <2>3, LenProperties
<1>9. Joined(Split(x, y)) = FlattenSeq(Joint(Split(x, y), y))
  BY Zenon DEF Joint, JoinField
<1>10. Joined(Split(x, y)) = x /\ \A k \in DOMAIN Split(x, y) : Occurrences(Split(x, y)[k], y) = {}
  BY <1>8, <1>9, Zenon DEF AreParts
<1>11. e > Len(page) <=> e = b
  BY <1>1, <1>4 DEF b
<1>12. IdList(s) = {} <=> (e > Len(page) \/ Short)
  BY <1>7, <1>11
<1>13. \A ids \in IdList(s) : ids = Split(x, y)
  BY <1>7 DEF y
<1> QED
  BY <1>10, <1>12, <1>13, Zenon

\* If the home page has an id list, the ids are what lies between its brackets,
\* cut at the commas, with nothing lost or added (getAndParseDZId), however long
\* the page and however many the ids.
THEOREM IdsOfList == Spec => []IdsAreListed
<1>1. Spec => []PageIInv
  BY PageInit, PageStep, PTL DEF Spec
<1>2. PageIInv => IdsAreListed
  BY IdsCut
<1> QED
  BY <1>1, <1>2, PTL
=============================================================================
