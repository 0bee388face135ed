-------------------------- MODULE PageCutUserProofs --------------------------
(* Cuts that end at a quote or go on behind one, for pages of any length and *)
(* any pieces: the articles of QSBKFetcher, portrait and name of a user.     *)
EXTENDS PageCutProofs

Quote == <<"quote", 0>>

\* What of a piece is behind the quote it holds.
PastQuote(p) == IF p \in {"link", "content"} THEN <<<<p, 2>>>> ELSE <<>>

Avoids(s, C) == \A k \in 1..Len(s) : s[k] \notin C

HoldsQuote(p) ==
  /\ UpToQuote(p) \in Seq(Sym) /\ PastQuote(p) \in Seq(Sym)
  /\ Symbols(p) = UpToQuote(p) \o (<<Quote>> \o PastQuote(p))
  /\ Lacks(UpToQuote(p), Quote)

LEMMA QuoteTyped ==
  /\ Quote \in Sym /\ <<Quote>> \in Seq(Sym) /\ Len(<<Quote>>) = 1
  /\ Symbols("quote") = <<Quote>>
<1>1. Quote \in Sym
  BY DEF Quote, Sym, SymOf
<1>2. Symbols("quote") = <<Quote>>
  BY DEF Quote, Symbols
<1> QED
  BY <1>1, <1>2

LEMMA TwoInOne ==
  ASSUME NEW T, NEW x \in T, NEW y \in T
  PROVE  <<x>> \o <<y>> = <<x, y>>
<1> DEFINE p == <<y>>
           s == <<x>> \o p
           t == <<x, y>>
<1>1. p \in Seq(T) /\ Len(p) = 1 /\ p[1] = y
  OBVIOUS
<1>2. t \in Seq(T) /\ Len(t) = 2 /\ t[1] = x /\ t[2] = y
  OBVIOUS
<1> HIDE DEF p, t
<1>3. s \in Seq(T) /\ Len(s) = 2 /\ s[1] = x /\ s[1 + 1] = p[1]
  <2>0. p \in Seq(T)
    BY <1>1
  <2>1. /\ s \in Seq(T) /\ Len(s) = Len(p) + 1 /\ s[1] = x
        /\ \A k \in 1..Len(p) : s[k + 1] = p[k]
    BY <2>0, ConsIs
  <2> HIDE DEF s
  <2>2. 1 \in 1..Len(p)
    BY <1>1
  <2> QED
    BY <1>1, <2>1, <2>2
<1> HIDE DEF s
<1>4. s[2] = y
  BY <1>1, <1>3
<1>5. \A k \in 1..2 : s[k] = t[k]
  <2> TAKE k \in 1..2
  <2>1. k = 1 \/ k = 2
    OBVIOUS
  <2> QED
    BY <1>2, <1>3, <1>4, <2>1
<1>6. s = t
  BY <1>2, <1>3, <1>5, SeqEqual
<1> QED
  BY <1>6 DEF s, t, p

LEMMA ThreeInOne ==
  ASSUME NEW T, NEW x \in T, NEW y \in T, NEW z \in T
  PROVE  <<x>> \o <<y, z>> = <<x, y, z>>
<1> DEFINE p == <<y, z>>
           s == <<x>> \o p
           t == <<x, y, z>>
<1>1. p \in Seq(T) /\ Len(p) = 2 /\ p[1] = y /\ p[2] = z
  OBVIOUS
<1>2. t \in Seq(T) /\ Len(t) = 3 /\ t[1] = x /\ t[2] = y /\ t[3] = z
  OBVIOUS
<1> HIDE DEF p, t
<1>3. s \in Seq(T) /\ Len(s) = 3 /\ s[1] = x /\ s[1 + 1] = p[1] /\ s[2 + 1] = p[2]
  <2>0. p \in Seq(T)
    BY <1>1
  <2>1. /\ s \in Seq(T) /\ Len(s) = Len(p) + 1 /\ s[1] = x
        /\ \A k \in 1..Len(p) : s[k + 1] = p[k]
    BY <2>0, ConsIs
  <2> HIDE DEF s
  <2>2. 1 \in 1..Len(p) /\ 2 \in 1..Len(p)
    BY <1>1
  <2> QED
    BY <1>1, <2>1, <2>2
<1> HIDE DEF s
<1>4. s[2] = y /\ s[3] = z
  BY <1>1, <1>3
<1>5. \A k \in 1..3 : s[k] = t[k]
  <2> TAKE k \in 1..3
  <2>1. k = 1 \/ k = 2 \/ k = 3
    OBVIOUS
  <2> QED
    BY <1>2, <1>3, <1>4, <2>1
<1>6. s = t
  BY <1>2, <1>3, <1>5, SeqEqual
<1> QED
  BY <1>6 DEF s, t, p

LEMMA QuotedHold ==
  ASSUME NEW p \in Piece, p \in Quoted
  PROVE  HoldsQuote(p)
<1> DEFINE b == <<p, 1>>
           c == <<p, 2>>
           q == Quote
<1>1. b \in Sym /\ c \in Sym /\ q \in Sym /\ b # q
  BY DEF Sym, SymOf, Quote
<1>2. CASE p = "quote"
  <2>1. UpToQuote(p) = <<>> /\ PastQuote(p) = <<>> /\ Symbols(p) = <<q>>
    BY <1>2 DEF UpToQuote, PastQuote, Symbols, Quote
  <2> HIDE DEF b, c, q
  <2>2. <<q>> = <<>> \o (<<q>> \o <<>>)
    BY <1>1, ConcatEmptySeq
  <2>3. Lacks(<<>>, q)
    BY DEF Lacks
  <2> QED
    BY <2>1, <2>2, <2>3 DEF HoldsQuote, q
<1>3. CASE p \in {"img", "alt"}
  <2>1. UpToQuote(p) = <<b>> /\ PastQuote(p) = <<>> /\ Symbols(p) = <<b, q>>
    BY <1>3 DEF UpToQuote, PastQuote, Symbols, Quote
  <2> HIDE DEF b, c, q
  <2>2. <<b, q>> = <<b>> \o (<<q>> \o <<>>) /\ <<b>> \in Seq(Sym) /\ <<>> \in Seq(Sym)
    BY <1>1
  <2>3. Lacks(<<b>>, q)
    BY <1>1 DEF Lacks
  <2> QED
    BY <2>1, <2>2, <2>3 DEF HoldsQuote, q
<1>4. CASE p \in {"link", "content"}
  <2>1. UpToQuote(p) = <<b>> /\ PastQuote(p) = <<c>> /\ Symbols(p) = <<b, q, c>>
    BY <1>4 DEF UpToQuote, PastQuote, Symbols, Quote
  <2> HIDE DEF b, c, q
  <2>2. <<b, q, c>> = <<b>> \o (<<q>> \o <<c>>) /\ <<b>> \in Seq(Sym) /\ <<c>> \in Seq(Sym)
    <3>1. <<q>> \o <<c>> = <<q, c>> /\ <<b>> \in Seq(Sym) /\ <<c>> \in Seq(Sym)
      BY <1>1, TwoInOne
    <3>2. <<b>> \o <<q, c>> = <<b, q, c>>
      BY <1>1, ThreeInOne
    <3> QED
      BY <3>1, <3>2
  <2>3. Lacks(<<b>>, q)
    BY <1>1 DEF Lacks
  <2> QED
    BY <2>1, <2>2, <2>3 DEF HoldsQuote, q
<1> QED
  BY <1>2, <1>3, <1>4 DEF Quoted

LEMMA NoQuoteInOthers ==
  ASSUME NEW p \in Piece, p \notin Quoted
  PROVE  Avoids(Symbols(p), {Quote})
<1>1. CASE p \in {"list", "sep", "end", "h1", "meta"}
  BY <1>1 DEF Avoids, Symbols, Quote
<1>2. CASE p \notin {"img", "alt", "link", "content", "list", "sep", "end", "h1", "meta"}
  BY <1>2 DEF Avoids, Symbols, Quote, Quoted
<1> QED
  BY <1>1, <1>2 DEF Quoted

\* What lacks a symbol avoids it, and the other way round.
LEMMA LacksIsAvoids ==
  ASSUME NEW s, NEW c
  PROVE  Lacks(s, c) <=> Avoids(s, {c})
  BY DEF Lacks, Avoids

LEMMA AvoidsConcat ==
  ASSUME NEW T, NEW s \in Seq(T), NEW t \in Seq(T), NEW C
  PROVE  Avoids(s \o t, C) <=> Avoids(s, C) /\ Avoids(t, C)
<1>1. Len(s) \in Nat /\ Len(t) \in Nat
  BY LenProperties
<1>2. /\ Len(s \o t) = Len(s) + Len(t)
      /\ \A i \in 1 .. Len(s) + Len(t) : (s \o t)[i] = IF i <= Len(s) THEN s[i] ELSE t[i - Len(s)]
  BY ConcatProperties
<1> DEFINE m == Len(s)
           n == Len(t)
           u == s \o t
<1>3. ASSUME Avoids(s, C), Avoids(t, C), NEW k \in 1..(m + n) PROVE u[k] \notin C
  <2>1. CASE k <= m
    BY <1>1, <1>2, <1>3, <2>1 DEF Avoids
  <2>2. CASE ~(k <= m)
    <3>1. k - m \in 1..n
      BY <1>1, <2>2
    <3> QED
      BY <1>2, <1>3, <2>2, <3>1 DEF Avoids
  <2> QED
    BY <2>1, <2>2
<1>4. ASSUME Avoids(u, C), NEW k \in 1..m PROVE s[k] \notin C
  <2>1. k \in 1..(m + n) /\ k <= m
    BY <1>1
  <2> QED
    BY <1>2, <1>4, <2>1 DEF Avoids
<1>5. ASSUME Avoids(u, C), NEW k \in 1..n PROVE t[k] \notin C
  <2> DEFINE i == m + k
  <2>1. i \in 1..(m + n) /\ ~(i <= m) /\ i - m = k
    BY <1>1
  <2> HIDE DEF i
  <2>2. u[i] = t[k]
    BY <1>2, <2>1
  <2> QED
    BY <1>2, <1>5, <2>1, <2>2 DEF Avoids
<1> QED
  BY <1>2, <1>3, <1>4, <1>5 DEF Avoids

\* If only the pieces of S have symbols of C, text without them has none.
LEMMA TextAvoids ==
  ASSUME NEW S, NEW C, \A p \in Piece : p \notin S => Avoids(Symbols(p), C),
         NEW ps \in Seq(Piece), Avoids(ps, S)
  PROVE  Avoids(Text(ps), C)
<1> DEFINE Q == {rs \in Seq(Piece) : Avoids(rs, S) => Avoids(Text(rs), C)}
<1>1. <<>> \in Q
  <2>1. <<>> \in Seq(Piece) /\ Len(<<>>) = 0
    OBVIOUS
  <2> QED
    BY <2>1, TextOfNothing DEF Avoids
<1>2. ASSUME NEW rs \in Seq(Piece), NEW e \in Piece, rs \in Q
      PROVE  Append(rs, e) \in Q
  <2> SUFFICES ASSUME Avoids(Append(rs, e), S) PROVE Avoids(Text(Append(rs, e)), C)
    BY AppendOne
  <2>1. e \notin S /\ Avoids(rs, S)
    BY AppendOne, LenProperties DEF Avoids
  <2>2. Avoids(Text(rs), C) /\ Avoids(Symbols(e), C)
    BY <1>2, <2>1
  <2>3. Text(Append(rs, e)) = Text(rs) \o Symbols(e)
    BY TextAppend
  <2>4. Text(rs) \in Seq(Sym) /\ Symbols(e) \in Seq(Sym)
    BY TextTyped, SymbolsTyped
  <2> HIDE DEF Q
  <2> QED
    BY <2>2, <2>3, <2>4, AvoidsConcat
<1> HIDE DEF Q
<1>3. ps \in Q
  BY <1>1, <1>2, SeqInduction
<1> QED
  BY <1>3 DEF Q

LEMMA BetweenAvoids ==
  ASSUME page \in Seq(Piece), NEW a \in Nat, NEW b \in Nat, b <= Len(page) + 1,
         NEW S, NEW C, \A p \in Piece : p \notin S => Avoids(Symbols(p), C),
         \A j \in (a + 1)..(b - 1) : page[j] \notin S
  PROVE  Avoids(Between(a, b), C)
<1> DEFINE P == SubSeq(page, a + 1, b - 1)
<1>1. P \in Seq(Piece)
  BY BetweenTyped
<1>2. Avoids(P, S)
  <2> DEFINE f == a + 1
             l == b - 1
  <2>1. f \in Int /\ l \in Int
    OBVIOUS
  <2>2. \A i \in f..l : page[i] \in Piece
    <3>1. \A i \in f..l : i \in 1..Len(page)
      BY LenProperties
    <3> QED
      BY <3>1, ElementOfSeq
  <2> HIDE DEF f, l
  <2>3. /\ Len(SubSeq(page, f, l)) = IF f <= l THEN l - f + 1 ELSE 0
        /\ \A i \in 1..(l - f + 1) : SubSeq(page, f, l)[i] = page[f + i - 1]
    BY <2>1, <2>2, SubSeqProperties
  <2>4. ASSUME NEW k \in 1..Len(SubSeq(page, f, l)) PROVE SubSeq(page, f, l)[k] \notin S
    <3>1. k \in 1..(l - f + 1) /\ f + k - 1 \in f..l
      BY <2>1, <2>3
    <3>2. page[f + k - 1] \notin S
      BY <3>1 DEF f, l
    <3> QED
      BY <2>3, <3>1, <3>2
  <2> QED
    BY <2>4 DEF f, l, Avoids
<1> HIDE DEF P
<1>3. Avoids(Text(P), C)
  BY <1>1, <1>2, TextAvoids
<1> QED
  BY <1>3 DEF Between, P

------------------------------------------------------------------------------
(* Cuts at a quote, and at a tag behind one.                               *)

LEMMA CutBehind ==
  ASSUME NEW T, NEW s, NEW a, NEW m, NEW b, IsCut(T, s, a, m, b)
  PROVE  Behind(s, m) = {m \o b}
<1> DEFINE t == m \o b
           k == Len(a)
<1>1. /\ s \in Seq(T) /\ a \in Seq(T) /\ t \in Seq(T) /\ s = a \o t /\ IndexOf(s, m) = k
      /\ Len(s) = Len(a) + Len(m) + Len(b)
  <2>1. s = a \o t /\ a \in Seq(T) /\ m \in Seq(T) /\ b \in Seq(T)
    BY DEF IsCut
  <2>2. t \in Seq(T)
    BY <2>1, ConcatProperties
  <2> QED
    BY <2>1, <2>2, CutFinds
<1> HIDE DEF t
<1>2. /\ k \in Nat /\ Len(t) \in Nat /\ Len(s) = k + Len(t)
      /\ \A i \in 1..(k + Len(t)) : s[i] = IF i <= k THEN a[i] ELSE t[i - k]
  <2>1. /\ Len(a \o t) = Len(a) + Len(t)
        /\ \A i \in 1 .. Len(a) + Len(t) : (a \o t)[i] = IF i <= Len(a) THEN a[i] ELSE t[i - Len(a)]
    BY <1>1, ConcatProperties
  <2> QED
    BY <1>1, <2>1, LenProperties
<1> HIDE DEF k
<1>3. \A i \in 1..Len(t) : s[k + i] = t[i]
  <2> TAKE i \in 1..Len(t)
  <2> DEFINE j == k + i
  <2>1. j \in 1..(k + Len(t)) /\ ~(j <= k) /\ j - k = i
    BY <1>2
  <2> HIDE DEF j
  <2>2. s[j] = t[i]
    BY <1>2, <2>1
  <2> QED
    BY <2>2 DEF j
<1>4. SubSeq(s, k + 1, k + Len(t)) = t
  BY <1>1, <1>2, <1>3, SubSeqIs
<1>5. Substring(s, k, Len(s)) = {t}
  <2>1. 0 <= k /\ k <= Len(s) /\ Len(s) <= Len(s)
    BY <1>2
  <2> QED
    BY <1>2, <1>4, <2>1 DEF Substring
<1> QED
  BY <1>1, <1>5 DEF Behind, t

\* What the code cuts at the next quote, wherever that is.
CutAtQuote(a, b) ==
  LET q == FirstIn(Quoted, a, b)
      s == Between(a, b)
  IN  /\ q \in (a + 1)..b
      /\ UpTo(s, Symbols("quote")) =
           IF q = b THEN {} ELSE {Between(a, q) \o UpToQuote(page[q])}
      /\ Behind(s, Symbols("quote")) =
           IF q = b THEN {}
           ELSE {<<Quote>> \o (PastQuote(page[q]) \o Between(q, b))}

LEMMA QuoteCut ==
  ASSUME page \in Seq(Piece), NEW a \in Nat, NEW b \in Nat, a < b, b <= Len(page) + 1
  PROVE  CutAtQuote(a, b)
<1> DEFINE q == FirstIn(Quoted, a, b)
           s == Between(a, b)
           y == <<Quote>>
<1>0. Len(page) \in Nat /\ y = Symbols("quote") /\ y \in Seq(Sym) /\ Len(y) = 1 /\ y[1] = Quote
  BY LenProperties, QuoteTyped
<1>1. /\ q \in (a + 1)..b /\ (q < b => page[q] \in Quoted)
      /\ \A j \in (a + 1)..(q - 1) : page[j] \notin Quoted
  BY FirstInFinds
<1> HIDE DEF q, y
<1>2. q \in Nat /\ q <= Len(page) + 1
  BY <1>0, <1>1
<1>3. Lacks(Between(a, q), Quote)
  <2>1. \A p \in Piece : p \notin Quoted => Avoids(Symbols(p), {Quote})
    BY NoQuoteInOthers
  <2>2. Avoids(Between(a, q), {Quote})
    BY <1>1, <1>2, <2>1, BetweenAvoids
  <2> QED
    BY <2>2, LacksIsAvoids
<1>4. ASSUME q # b
      PROVE  /\ UpTo(s, y) = {Between(a, q) \o UpToQuote(page[q])}
             /\ Behind(s, y) = {y \o (PastQuote(page[q]) \o Between(q, b))}
  <2> DEFINE A == Between(a, q)
             B == Between(q, b)
             u == UpToQuote(page[q])
             v == PastQuote(page[q])
  <2>1. q \in (a + 1)..(b - 1) /\ q \in 1..Len(page) /\ page[q] \in Quoted
    BY <1>0, <1>1, <1>2, <1>4
  <2>2. page[q] \in Piece
    BY <2>1, ElementOfSeq
  <2>3. /\ u \in Seq(Sym) /\ v \in Seq(Sym) /\ Symbols(page[q]) = u \o (y \o v)
        /\ Lacks(u, Quote)
    <3>1. HoldsQuote(page[q])
      BY <2>1, <2>2, QuotedHold
    <3> QED
      BY <3>1, Zenon DEF HoldsQuote, y
  <2>4. s = A \o (Symbols(page[q]) \o B)
    BY <2>1, BetweenSplit
  <2>5. A \in Seq(Sym) /\ B \in Seq(Sym)
    BY <1>2, BetweenTyped
  <2>6. Lacks(A, Quote)
    BY <1>3
  <2> HIDE DEF A, B, u, v, s
  <2>7. s = (A \o u) \o (y \o (v \o B))
    <3>1. y \o v \in Seq(Sym) /\ v \o B \in Seq(Sym) /\ y \o (v \o B) \in Seq(Sym)
      BY <1>0, <2>3, <2>5, ConcatProperties
    <3>2. (u \o (y \o v)) \o B = u \o ((y \o v) \o B)
      <4>1. Three(Sym, u, y \o v, B)
        BY <2>3, <2>5, <3>1 DEF Three
      <4>2. Associative(u, y \o v, B)
        BY <4>1, ThreeAssociative
      <4> QED
        BY <4>2 DEF Associative
    <3>3. (y \o v) \o B = y \o (v \o B)
      <4>1. Three(Sym, y, v, B)
        BY <1>0, <2>3, <2>5 DEF Three
      <4>2. Associative(y, v, B)
        BY <4>1, ThreeAssociative
      <4> QED
        BY <4>2 DEF Associative
    <3>4. (A \o u) \o (y \o (v \o B)) = A \o (u \o (y \o (v \o B)))
      <4>1. Three(Sym, A, u, y \o (v \o B))
        BY <2>3, <2>5, <3>1 DEF Three
      <4>2. Associative(A, u, y \o (v \o B))
        BY <4>1, ThreeAssociative
      <4> QED
        BY <4>2 DEF Associative
    <3> QED
      BY <2>3, <2>4, <3>2, <3>3, <3>4
  <2> DEFINE h == A \o u
             r == v \o B
  <2>8. h \in Seq(Sym) /\ r \in Seq(Sym) /\ Lacks(h, Quote)
    BY <2>3, <2>5, <2>6, ConcatProperties, LacksConcat
  <2> HIDE DEF h, r
  <2>9. IsCut(Sym, s, h, y, r)
    BY <1>0, <2>7, <2>8 DEF IsCut, h, r
  <2>10. UpTo(s, y) = {h} /\ Behind(s, y) = {y \o r}
    BY <2>9, CutFinds, CutBehind
  <2> QED
    BY <2>10 DEF h, r, A, B, u, v
<1>5. ASSUME q = b PROVE UpTo(s, y) = {} /\ Behind(s, y) = {}
  <2>0. Lacks(s, Quote) /\ s \in Seq(Sym)
    BY <1>3, <1>5, BetweenTyped
  <2>1. s \in Seq(Sym) /\ Lacks(s, y[1]) /\ Len(y) \in Nat /\ Len(y) >= 1
    <3> HIDE DEF s
    <3> QED
      BY <1>0, <2>0
  <2> HIDE DEF s
  <2>2. Occurrences(s, y) = {}
    BY <2>1, CutMisses
  <2>3. IndexOf(s, y) = -1
    BY <2>2 DEF IndexOf
  <2>4. UpTo(s, y) = Substring(s, 0, -1) /\ Behind(s, y) = Substring(s, -1, Len(s))
    BY <2>3 DEF UpTo, Behind
  <2>5. Len(s) \in Nat
    BY <2>1, LenProperties
  <2>6. Substring(s, 0, -1) = {}
    BY DEF Substring
  <2>7. Substring(s, -1, Len(s)) = {}
    BY DEF Substring
  <2> QED
    BY <2>4, <2>6, <2>7
<1>6. UpTo(s, y) = IF q = b THEN {} ELSE {Between(a, q) \o UpToQuote(page[q])}
  BY <1>4, <1>5
<1>7. Behind(s, y) = IF q = b THEN {} ELSE {y \o (PastQuote(page[q]) \o Between(q, b))}
  BY <1>4, <1>5
<1> QED
  BY <1>0, <1>1, <1>6, <1>7, Zenon DEF CutAtQuote, q, y

\* Nothing is behind the end.
LEMMA NoneBehind ==
  ASSUME NEW S, NEW b \in Nat
  PROVE  FirstIn(S, b, b) = b
<1>1. {k \in (b + 1)..(b - 1) : page[k] \in S} = {}
  OBVIOUS
<1> QED
  BY <1>1, Zenon DEF FirstIn

\* The first tag cuts what lies between a and b.
LEMMA TagIsCut ==
  ASSUME page \in Seq(Piece), NEW a \in Nat, NEW b \in Nat, a < b, b <= Len(page) + 1,
         NEW m, m # "quote", FirstIn({m}, a, b) # b
  PROVE  IsCut(Sym, Between(a, b), Between(a, FirstIn({m}, a, b)), Symbols(m),
               Between(FirstIn({m}, a, b), b))
<1> DEFINE k == FirstIn({m}, a, b)
           y == Symbols(m)
           A == Between(a, k)
           B == Between(k, b)
           s == Between(a, b)
<1>0. Len(page) \in Nat
  BY LenProperties
<1>1. /\ k \in (a + 1)..b /\ (k < b => page[k] \in {m})
      /\ \A j \in (a + 1)..(k - 1) : page[j] \notin {m}
  BY FirstInFinds
<1>2. k # b
  OBVIOUS
<1> HIDE DEF k
<1>3. k \in (a + 1)..(b - 1) /\ k \in 1..Len(page) /\ page[k] = m
  BY <1>0, <1>1, <1>2
<1>4. k \in Nat /\ k <= Len(page) + 1
  BY <1>0, <1>3
<1>5. y \in Seq(Sym) /\ Len(y) >= 1 /\ y[1] = Opens(m)
  <2>1. m \in Piece
    BY <1>3, ElementOfSeq
  <2> QED
    BY <2>1, SymbolsTyped
<1>6. A \in Seq(Sym) /\ B \in Seq(Sym)
  BY <1>4, BetweenTyped
<1>7. Lacks(A, Opens(m))
  <2>1. \A j \in (a + 1)..(k - 1) : page[j] # m
    BY <1>1
  <2> QED
    BY <1>4, <2>1, BetweenLacks
<1>8. s = A \o (y \o B)
  BY <1>3, BetweenSplit
<1> HIDE DEF A, B, s, y
<1>9. IsCut(Sym, s, A, y, B)
  BY <1>5, <1>6, <1>7, <1>8, Zenon DEF IsCut
<1> QED
  BY <1>9 DEF s, A, y, B, k

\* A tag is found behind what it is no part of.
LEMMA TagAfter ==
  ASSUME page \in Seq(Piece), NEW a \in Nat, NEW b \in Nat, a < b, b <= Len(page) + 1,
         NEW m, m # "quote", FirstIn({m}, a, b) # b,
         NEW c \in Seq(Sym), Lacks(c, Opens(m))
  PROVE  From(c \o Between(a, b), Symbols(m)) = {Between(FirstIn({m}, a, b), b)}
<1> DEFINE k == FirstIn({m}, a, b)
           y == Symbols(m)
           A == Between(a, k)
           B == Between(k, b)
           s == Between(a, b)
<1>0. Len(page) \in Nat
  BY LenProperties
<1>1. /\ k \in (a + 1)..b /\ (k < b => page[k] \in {m})
      /\ \A j \in (a + 1)..(k - 1) : page[j] \notin {m}
  BY FirstInFinds
<1>2. k # b
  OBVIOUS
<1> HIDE DEF k
<1>3. k \in (a + 1)..(b - 1) /\ k \in 1..Len(page) /\ page[k] = m
  BY <1>0, <1>1, <1>2
<1>4. k \in Nat /\ k <= Len(page) + 1
  BY <1>0, <1>3
<1>5. y \in Seq(Sym) /\ Len(y) >= 1 /\ y[1] = Opens(m)
  <2>1. m \in Piece
    BY <1>3, ElementOfSeq
  <2> QED
    BY <2>1, SymbolsTyped
<1>6. A \in Seq(Sym) /\ B \in Seq(Sym)
  BY <1>4, BetweenTyped
<1>7. Lacks(A, Opens(m))
  <2>1. \A j \in (a + 1)..(k - 1) : page[j] # m
    BY <1>1
  <2> QED
    BY <1>4, <2>1, BetweenLacks
<1>8. s = A \o (y \o B)
  BY <1>3, BetweenSplit
<1> HIDE DEF A, B, s, y
<1> DEFINE r == y \o B
           h == c \o A
<1>9. r \in Seq(Sym) /\ h \in Seq(Sym) /\ Lacks(h, Opens(m))
  BY <1>5, <1>6, <1>7, ConcatProperties, LacksConcat
<1> HIDE DEF r, h
<1>10. c \o s = h \o r
  <2>1. Three(Sym, c, A, r)
    BY <1>6, <1>9 DEF Three
  <2>2. Associative(c, A, r)
    BY <2>1, ThreeAssociative
  <2> QED
    BY <1>8, <2>2 DEF Associative, h, r
<1> DEFINE z == c \o s
<1> HIDE DEF z
<1>11. IsCut(Sym, z, h, y, B)
  BY <1>5, <1>6, <1>9, <1>10, Zenon DEF IsCut, r, z
<1>12. From(z, y) = {B}
  BY <1>11, CutFinds
<1> QED
  BY <1>12 DEF z, s, y, B, k

LEMMA TagBehind ==
  ASSUME page \in Seq(Piece), NEW a \in Nat, NEW b \in Nat, a < b, b <= Len(page) + 1,
         NEW m, m # "quote", FirstIn({m}, a, b) # b
  PROVE  Behind(Between(a, b), Symbols(m)) =
           {Symbols(m) \o Between(FirstIn({m}, a, b), b)}
<1> DEFINE k == FirstIn({m}, a, b)
           s == Between(a, b)
           y == Symbols(m)
           A == Between(a, k)
           B == Between(k, b)
<1>1. IsCut(Sym, s, A, y, B)
  BY TagIsCut
<1> HIDE DEF s, A, y, B
<1>2. Behind(s, y) = {y \o B}
  BY <1>1, CutBehind
<1> QED
  BY <1>2 DEF s, y, B, k

\* What follows on the value of an attribute, when the cut before it left c.
ValueIs(c, a, b, m) ==
  LET k == FirstIn({m}, a, b)
      q == FirstIn(Quoted, k, b)
  IN  PastValue(c \o Between(a, b), Symbols(m)) =
        IF q = b THEN {} ELSE {(<<Quote>> \o PastQuote(page[q])) \o Between(q, b)}

LEMMA ValueCut ==
  ASSUME page \in Seq(Piece), NEW a \in Nat, NEW b \in Nat, a < b, b <= Len(page) + 1,
         NEW m, m # "quote", FirstIn({m}, a, b) # b,
         NEW c \in Seq(Sym), Lacks(c, Opens(m))
  PROVE  ValueIs(c, a, b, m)
<1> DEFINE k == FirstIn({m}, a, b)
           q == FirstIn(Quoted, k, b)
           s == c \o Between(a, b)
           h == Behind(Between(k, b), Symbols("quote"))
<1>1. k \in (a + 1)..b /\ k # b
  BY FirstInFinds
<1>2. From(s, Symbols(m)) = {Between(k, b)}
  BY TagAfter
<1>3. PastValue(s, Symbols(m)) = h
  <2>1. PastValue(s, Symbols(m)) = UNION {Behind(r, Symbols("quote")) : r \in {Between(k, b)}}
    BY <1>2, Zenon DEF PastValue
  <2> QED
    BY <2>1, Zenon
<1> HIDE DEF k, s
<1>4. k \in Nat /\ k < b
  BY <1>1
<1>5. /\ q \in (k + 1)..b
      /\ h = IF q = b THEN {} ELSE {<<Quote>> \o (PastQuote(page[q]) \o Between(q, b))}
  <2>1. CutAtQuote(k, b)
    BY <1>4, QuoteCut
  <2> QED
    BY <2>1, Zenon DEF CutAtQuote
<1>6. q < b => page[q] \in Quoted
  BY <1>4, FirstInFinds
<1> HIDE DEF q, h
<1>7. ASSUME q # b
      PROVE  <<Quote>> \o (PastQuote(page[q]) \o Between(q, b)) =
             (<<Quote>> \o PastQuote(page[q])) \o Between(q, b)
  <2>0. Len(page) \in Nat
    BY LenProperties
  <2>1. q \in 1..Len(page) /\ q < b /\ q \in Nat
    BY <1>4, <1>5, <1>7, <2>0
  <2>2. page[q] \in Piece /\ page[q] \in Quoted
    BY <1>6, <2>1, ElementOfSeq
  <2>3. PastQuote(page[q]) \in Seq(Sym)
    <3>1. HoldsQuote(page[q])
      BY <2>2, QuotedHold
    <3> QED
      BY <3>1 DEF HoldsQuote
  <2>4. Between(q, b) \in Seq(Sym)
    BY <2>1, BetweenTyped
  <2>5. Three(Sym, <<Quote>>, PastQuote(page[q]), Between(q, b))
    BY <2>3, <2>4, QuoteTyped DEF Three
  <2>6. Associative(<<Quote>>, PastQuote(page[q]), Between(q, b))
    BY <2>5, ThreeAssociative
  <2> QED
    BY <2>6 DEF Associative
<1>8. PastValue(s, Symbols(m)) =
        IF q = b THEN {} ELSE {(<<Quote>> \o PastQuote(page[q])) \o Between(q, b)}
  BY <1>3, <1>5, <1>7
<1> QED
  BY <1>8, Zenon DEF ValueIs, k, q, s

\* What is left of the tag with the quote opens no other.
LEMMA QuoteOpensNone ==
  ASSUME NEW m, m # "quote", NEW p \in Piece, p \in Quoted
  PROVE  /\ <<Quote>> \o PastQuote(p) \in Seq(Sym)
         /\ Lacks(<<Quote>> \o PastQuote(p), Opens(m))
<1>1. <<Quote>> \in Seq(Sym) /\ Lacks(<<Quote>>, Opens(m))
  <2>1. Quote # Opens(m)
    BY DEF Quote, Opens
  <2> QED
    BY <2>1, QuoteTyped DEF Lacks
<1>2. PastQuote(p) \in Seq(Sym)
  <2>1. HoldsQuote(p)
    BY QuotedHold
  <2> QED
    BY <2>1 DEF HoldsQuote
<1>3. Lacks(PastQuote(p), Opens(m))
  BY DEF Lacks, PastQuote, Opens
<1> QED
  BY <1>1, <1>2, <1>3, ConcatProperties, LacksConcat

------------------------------------------------------------------------------
(* An article: id, portrait, name and content, one behind the other.       *)

Dz(a) == [id |-> Between(a, IdEnd(a)), content |-> Trim(Between(Content(a), ContentEnd(a)))]

ArticleIs(a) == Article(Between(a, ArticleEnd(a))) = IF Sound(a) THEN {Dz(a)} ELSE {}

\* Where something is found, and if it is, it is one of those searched.
LEMMA FoundIn ==
  ASSUME NEW S, NEW a \in Nat, NEW b \in Nat, a < b
  PROVE  /\ FirstIn(S, a, b) \in Nat /\ a < FirstIn(S, a, b) /\ FirstIn(S, a, b) <= b
         /\ FirstIn(S, a, b) # b => FirstIn(S, a, b) < b /\ page[FirstIn(S, a, b)] \in S
<1> DEFINE k == FirstIn(S, a, b)
<1>1. k \in (a + 1)..b /\ (k < b => page[k] \in S)
  BY FirstInFinds
<1> HIDE DEF k
<1>2. k \in Nat /\ a < k /\ k <= b /\ (k # b => k < b /\ page[k] \in S)
  BY <1>1
<1> QED
  BY <1>2 DEF k

LEMMA TagOpensNoOther ==
  ASSUME NEW p \in Piece, NEW m, m # "quote", m # p
  PROVE  Symbols(p) \in Seq(Sym) /\ Lacks(Symbols(p), Opens(m))
<1>1. Symbols(m)[1] = Opens(m)
  BY SymbolsShape
<1>2. Symbols(p) \in Seq(Sym)
  BY SymbolsTyped
<1>3. \A k \in 1..Len(Symbols(p)) : Symbols(p)[k] # Opens(m)
  BY <1>1, FirstSymbol
<1> QED
  BY <1>2, <1>3 DEF Lacks

\* What Article makes of the ids and the contents it cuts: none or one of each.
Made(ids, contents) ==
  {[id |-> n, content |-> Trim(c)] : n \in {n \in ids : IsNumber(n)}, c \in contents}

LEMMA MadeOfNone ==
  ASSUME NEW I
  PROVE  Made(I, {}) = {} /\ Made({}, I) = {}
  BY SMT DEF Made

LEMMA MadeOfOne ==
  ASSUME NEW n, NEW c
  PROVE  Made({n}, {c}) = IF IsNumber(n) THEN {[id |-> n, content |-> Trim(c)]} ELSE {}
  BY SMT DEF Made

LEMMA ArticleMade ==
  ASSUME NEW s
  PROVE  Article(s) =
           LET thumbs == UNION {PastValue(r, Symbols("img")) : r \in Behind(s, Symbols("apos"))}
               names == UNION {PastValue(r, Symbols("alt")) : r \in thumbs}
               contents == UNION {UNION {UpTo(c, Symbols("/div")) :
                                           c \in From(r, Symbols("content"))} : r \in names}
           IN  Made(UpTo(s, Symbols("apos")), contents)
  BY SMT DEF Article, Made

LEMMA ArticleCut ==
  ASSUME page \in Seq(Piece), NEW a \in 0..Len(page), Noticed(a)
  PROVE  ArticleIs(a)
<1> DEFINE b == Len(page) + 1
           e == ArticleEnd(a)
           i == IdEnd(a)
           t == Thumb(a)
           te == ThumbEnd(a)
           n == Name(a)
           ne == NameEnd(a)
           o == Content(a)
           oe == ContentEnd(a)
           s == Between(a, e)
           thumbs == UNION {PastValue(r, Symbols("img")) : r \in Behind(s, Symbols("apos"))}
           names == UNION {PastValue(r, Symbols("alt")) : r \in thumbs}
           contents == UNION {UNION {UpTo(c, Symbols("/div")) : c \in From(r, Symbols("content"))} :
                                r \in names}
           ids == UpTo(s, Symbols("apos"))
           Cut == Made(ids, contents)
<1>1. Article(s) = Cut
  BY ArticleMade, Zenon
<1>2. Len(page) \in Nat /\ a \in Nat /\ b \in Nat /\ a < b
  BY LenProperties
<1>3. e \in Nat /\ a < e /\ e <= b
  BY <1>2, FoundIn DEF ArticleEnd
<1>4. /\ i = FirstIn({"apos"}, a, e) /\ t = FirstIn({"img"}, i, e) /\ te = FirstIn(Quoted, t, e)
      /\ n = FirstIn({"alt"}, te, e) /\ ne = FirstIn(Quoted, n, e)
      /\ o = FirstIn({"content"}, ne, e) /\ oe = FirstIn({"/div"}, o, e)
  BY Zenon DEF IdEnd, Thumb, ThumbEnd, Name, NameEnd, Content, ContentEnd
<1>5. /\ i < e => t < e
      /\ te < e => n < e
      /\ ne < e => o < e
  BY Zenon DEF Noticed
<1>6. Sound(a) <=> oe < e /\ IsNumber(Between(a, i))
  BY Zenon DEF Sound
<1>7. Dz(a) = [id |-> Between(a, i), content |-> Trim(Between(o, oe))]
  BY Zenon DEF Dz
<1> SUFFICES Cut = IF Sound(a) THEN {Dz(a)} ELSE {}
  BY <1>1 DEF ArticleIs
<1> HIDE DEF e, i, t, te, n, ne, o, oe, b
<1>8. e <= Len(page) + 1
  BY <1>3 DEF b
<1>9. i \in Nat /\ a < i /\ i <= e /\ (i # e => i < e /\ page[i] \in {"apos"})
  BY <1>2, <1>3, <1>4, FoundIn
<1>10. \A S : FirstIn(S, e, e) = e
  BY <1>3, NoneBehind
<1>11. ids = IF i = e THEN {} ELSE {Between(a, i)}
  <2>1. CutAtTag(a, e, "apos")
    BY <1>2, <1>3, <1>8, TagCut
  <2> QED
    BY <1>4, <2>1, Zenon DEF CutAtTag
<1>12. CASE i = e
  <2>1. oe = e
    BY <1>4, <1>10, <1>12
  <2>2. ~Sound(a)
    BY <1>3, <1>6, <2>1
  <2>3. Cut = {}
    BY <1>11, <1>12, MadeOfNone, Zenon
  <2> QED
    BY <2>2, <2>3
<1>13. ASSUME i # e
       PROVE  contents = IF oe = e THEN {} ELSE {Between(o, oe)}
  <2>1. i < e /\ page[i] = "apos" /\ t < e
    BY <1>5, <1>9, <1>13
  <2>2. t \in Nat /\ i < t /\ t # e
    BY <1>3, <1>4, <1>9, <2>1, FoundIn
  <2>3. te \in Nat /\ t < te /\ te <= e /\ (te # e => te < e /\ page[te] \in Quoted)
    BY <1>3, <1>4, <2>1, <2>2, FoundIn
  <2> DEFINE q == Symbols("apos")
  <2>4. Behind(s, q) = {q \o Between(i, e)}
    <3>1. FirstIn({"apos"}, a, e) # e
      BY <1>4, <1>13
    <3> QED
      BY <1>2, <1>3, <1>4, <1>8, <3>1, TagBehind
  <2>5. i \in 1..Len(page)
    <3> HIDE DEF s, ids, thumbs, names, contents
    <3> QED
      BY <1>2, <1>3, <1>8, <1>9, <2>1
  <2>6. q \in Seq(Sym) /\ Lacks(q, Opens("img"))
    <3>1. "apos" \in Piece
      BY <2>1, <2>5, ElementOfSeq
    <3> QED
      BY <3>1, TagOpensNoOther
  <2> HIDE DEF s, q
  <2> DEFINE x == <<Quote>> \o PastQuote(page[te])
             y == <<Quote>> \o PastQuote(page[ne])
  <2>7. thumbs = IF te = e THEN {} ELSE {x \o Between(te, e)}
    <3>1. thumbs = PastValue(q \o Between(i, e), Symbols("img"))
      BY <2>4, Zenon DEF q
    <3>2. FirstIn({"img"}, i, e) # e
      BY <1>4, <2>2
    <3>3. PastValue(q \o Between(i, e), Symbols("img")) =
            IF te = e THEN {} ELSE {x \o Between(te, e)}
      <4>1. ValueIs(q, i, e, "img")
        BY <1>3, <1>8, <1>9, <2>1, <2>6, <3>2, ValueCut
      <4> QED
        BY <1>4, <4>1, Zenon DEF ValueIs
    <3> QED
      BY <3>1, <3>3
  <2> HIDE DEF thumbs
  <2>8. CASE te = e
    <3>1. oe = e
      BY <1>4, <1>10, <2>8
    <3>2. contents = {}
      BY <2>7, <2>8, Zenon
    <3> QED
      BY <3>1, <3>2
  <2>9. CASE te # e
    <3>1. te < e /\ page[te] \in Quoted /\ n < e
      BY <1>5, <2>3, <2>9
    <3>2. n \in Nat /\ te < n /\ n # e
      BY <1>3, <1>4, <2>3, <3>1, FoundIn
    <3>3. ne \in Nat /\ n < ne /\ ne <= e /\ (ne # e => ne < e /\ page[ne] \in Quoted)
      BY <1>3, <1>4, <3>1, <3>2, FoundIn
    <3>4. te \in 1..Len(page)
      BY <1>2, <1>3, <1>8, <2>2, <2>3, <3>1
    <3>5. x \in Seq(Sym) /\ Lacks(x, Opens("alt"))
      <4>1. page[te] \in Piece
        BY <3>4, ElementOfSeq
      <4> QED
        BY <3>1, <4>1, QuoteOpensNone
    <3> HIDE DEF x
    <3>6. names = IF ne = e THEN {} ELSE {y \o Between(ne, e)}
      <4>1. names = PastValue(x \o Between(te, e), Symbols("alt"))
        BY <2>7, <2>9, Zenon
      <4>2. FirstIn({"alt"}, te, e) # e
        BY <1>4, <3>2
      <4>3. PastValue(x \o Between(te, e), Symbols("alt")) =
              IF ne = e THEN {} ELSE {y \o Between(ne, e)}
        <5>1. ValueIs(x, te, e, "alt")
          BY <1>3, <1>8, <2>3, <3>1, <3>5, <4>2, ValueCut
        <5> QED
          BY <1>4, <5>1, Zenon DEF ValueIs
      <4> QED
        BY <4>1, <4>3
    <3> HIDE DEF names
    <3>7. CASE ne = e
      <4>1. oe = e
        BY <1>4, <1>10, <3>7
      <4>2. contents = {}
        BY <3>6, <3>7, Zenon
      <4> QED
        BY <4>1, <4>2
    <3>8. CASE ne # e
      <4>1. ne < e /\ page[ne] \in Quoted /\ o < e
        BY <1>5, <3>3, <3>8
      <4>2. o \in Nat /\ ne < o /\ o # e
        BY <1>3, <1>4, <3>3, <4>1, FoundIn
      <4>3. ne \in 1..Len(page)
        BY <1>2, <1>3, <1>8, <3>2, <3>3, <4>1
      <4>4. y \in Seq(Sym) /\ Lacks(y, Opens("content"))
        <5>1. page[ne] \in Piece
          BY <4>3, ElementOfSeq
        <5> QED
          BY <4>1, <5>1, QuoteOpensNone
      <4> HIDE DEF y
      <4>5. From(y \o Between(ne, e), Symbols("content")) = {Between(o, e)}
        <5>1. FirstIn({"content"}, ne, e) # e
          BY <1>4, <4>2
        <5> QED
          BY <1>3, <1>4, <1>8, <3>3, <4>1, <4>4, <5>1, TagAfter
      <4>6. contents = UpTo(Between(o, e), Symbols("/div"))
        <5> DEFINE z == y \o Between(ne, e)
                   Ends(r) == UNION {UpTo(c, Symbols("/div")) : c \in From(r, Symbols("content"))}
        <5>1. names = {z}
          BY <3>6, <3>8
        <5>2. Ends(z) = UpTo(Between(o, e), Symbols("/div"))
          <6>1. Ends(z) = UNION {UpTo(c, Symbols("/div")) : c \in {Between(o, e)}}
            BY <4>5, Zenon
          <6> QED
            BY <6>1, Zenon
        <5>3. contents = UNION {Ends(r) : r \in {z}}
          BY <5>1, Zenon
        <5> HIDE DEF Ends, z
        <5>4. UNION {Ends(r) : r \in {z}} = Ends(z)
          BY Zenon
        <5> QED
          BY <5>2, <5>3, <5>4
      <4>7. CutAtTag(o, e, "/div")
        BY <1>3, <1>8, <4>1, <4>2, TagCut
      <4> QED
        BY <1>4, <4>6, <4>7, Zenon DEF CutAtTag
    <3> QED
      BY <3>7, <3>8
  <2> QED
    BY <2>8, <2>9
<1>14. CASE i # e
  <2>1. contents = IF oe = e THEN {} ELSE {Between(o, oe)}
    BY <1>13, <1>14
  <2>2. oe < e <=> oe # e
    <3>1. o \in Nat /\ o <= e /\ oe \in Nat /\ oe <= e
      <4> DEFINE Upto(k) == k \in Nat /\ k <= e
      <4>1. \A S : \A k \in Nat : k <= e => FirstIn(S, k, e) \in Nat /\ FirstIn(S, k, e) <= e
        <5> TAKE S
        <5> TAKE k \in Nat
        <5>1. CASE k < e
          BY <1>3, <5>1, FoundIn
        <5>2. CASE k = e
          BY <1>3, <1>10, <5>2
        <5> QED
          BY <1>3, <5>1, <5>2
      <4>2. t \in Nat /\ t <= e
        BY <1>4, <1>9, <4>1
      <4>3. te \in Nat /\ te <= e
        BY <1>4, <4>1, <4>2
      <4>4. n \in Nat /\ n <= e
        BY <1>4, <4>1, <4>3
      <4>5. ne \in Nat /\ ne <= e
        BY <1>4, <4>1, <4>4
      <4>6. o \in Nat /\ o <= e
        BY <1>4, <4>1, <4>5
      <4> QED
        BY <1>4, <4>1, <4>6
    <3> QED
      BY <1>3, <3>1
  <2> HIDE DEF contents, ids
  <2> DEFINE A == Between(a, i)
             C == Between(o, oe)
  <2> HIDE DEF A, C
  <2>3. CASE oe = e
    <3>1. Cut = {}
      BY <2>1, <2>3, MadeOfNone, Zenon
    <3> QED
      BY <1>6, <2>2, <2>3, <3>1
  <2>4. CASE oe # e
    <3>1. Cut = Made({A}, {C})
      BY <1>11, <1>14, <2>1, <2>4, Zenon DEF A, C
    <3> HIDE DEF Cut
    <3>2. Cut = IF IsNumber(A) THEN {[id |-> A, content |-> Trim(C)]} ELSE {}
      BY <3>1, MadeOfOne, Zenon
    <3>3. Sound(a) <=> IsNumber(A)
      BY <1>6, <2>2, <2>4 DEF A
    <3>4. Dz(a) = [id |-> A, content |-> Trim(C)]
      BY <1>7 DEF A, C
    <3> QED
      BY <3>2, <3>3, <3>4, Zenon
  <2> QED
    BY <2>3, <2>4
<1> QED
  BY <1>12, <1>14

------------------------------------------------------------------------------
(* Splitter, one part at a time.                                           *)

LEMMA PartsAt ==
  ASSUME NEW s, NEW m, NEW g, NEW n, Parts(s, m, g, n), NEW i \in 0..n
  PROVE  g[i] = IF Occurrences(Suffix(s, i), m) = {} THEN <<Suffix(s, i)>>
                ELSE <<Part(Suffix(s, i), m)>> \o g[i - (IndexOf(Suffix(s, i), m) + Len(m))]
<1>1. g[i] = PartsField(s, m, g, i)
  BY DEF Parts
<1> QED
  BY <1>1, Zenon DEF PartsField, Suffix

LEMMA WholeSuffix ==
  ASSUME NEW T, NEW s \in Seq(T)
  PROVE  Suffix(s, Len(s)) = s
<1>1. Len(s) - Len(s) + 1 = 1
  BY LenProperties
<1> QED
  BY <1>1, SubSeqFull DEF Suffix

LEMMA SplitNone ==
  ASSUME NEW T, NEW s \in Seq(T), NEW m \in Seq(T), Len(m) >= 1, Occurrences(s, m) = {}
  PROVE  Split(s, m) = <<s>>
<1>1. PICK g : Parts(s, m, g, Len(s)) /\ Split(s, m) = g[Len(s)]
  BY SplitIsParts
<1>2. Len(s) \in 0..Len(s) /\ Suffix(s, Len(s)) = s
  BY WholeSuffix, LenProperties
<1>3. g[Len(s)] = IF Occurrences(s, m) = {} THEN <<s>>
                  ELSE <<Part(s, m)>> \o g[Len(s) - (IndexOf(s, m) + Len(m))]
  <2> DEFINE l == Len(s)
  <2>1. Parts(s, m, g, l) /\ l \in 0..l /\ Suffix(s, l) = s
    BY <1>1, <1>2
  <2> HIDE DEF l
  <2>2. g[l] = IF Occurrences(Suffix(s, l), m) = {} THEN <<Suffix(s, l)>>
               ELSE <<Part(Suffix(s, l), m)>> \o g[l - (IndexOf(Suffix(s, l), m) + Len(m))]
    BY <2>1, PartsAt
  <2> QED
    BY <2>1, <2>2, Zenon DEF l
<1> QED
  BY <1>1, <1>3

LEMMA SplitCons ==
  ASSUME NEW T, NEW s, NEW a, NEW m, NEW b, IsCut(T, s, a, m, b)
  PROVE  Split(s, m) = <<a>> \o Split(b, m)
<1>1. a \in Seq(T) /\ m \in Seq(T) /\ b \in Seq(T) /\ Len(m) >= 1
  BY DEF IsCut
<1>2. /\ s \in Seq(T) /\ Len(s) = Len(a) + Len(m) + Len(b)
      /\ Occurrences(s, m) # {} /\ IndexOf(s, m) = Len(a)
      /\ Part(s, m) = a /\ From(s, m) = {b}
  BY CutFinds
<1>3. Len(a) \in Nat /\ Len(m) \in Nat /\ Len(b) \in Nat /\ Len(s) \in Nat
  BY <1>1, <1>2, LenProperties
<1>4. Suffix(s, Len(b)) = b
  <2> DEFINE i == Len(a) + Len(m)
             l == Len(s)
  <2>1. i \in Int /\ 0 <= i /\ i <= l /\ l \in Nat /\ i + 1 = l - Len(b) + 1
    BY <1>2, <1>3
  <2>2. From(s, m) = Substring(s, i, l)
    BY <1>2 DEF From
  <2> HIDE DEF i, l
  <2>3. Substring(s, i, Len(s)) = {SubSeq(s, i + 1, l)}
    BY <2>1 DEF Substring, l
  <2>4. SubSeq(s, i + 1, l) = b
    BY <1>2, <2>2, <2>3 DEF l
  <2> QED
    BY <2>1, <2>4 DEF Suffix, l
<1>5. PICK g : Parts(s, m, g, Len(s)) /\ Split(s, m) = g[Len(s)]
  BY <1>1, <1>2, SplitIsParts
<1>6. PICK h : Parts(b, m, h, Len(b)) /\ Split(b, m) = h[Len(b)]
  BY <1>1, SplitIsParts
<1> DEFINE Bad == {i \in Nat : i \in 0..Len(b) /\ g[i] # h[i]}
<1>7. Bad = {}
  <2> SUFFICES ASSUME Bad # {} PROVE FALSE
    OBVIOUS
  <2>1. PICK i \in Bad : \A k \in Bad : i <= k
    BY LeastNatural
  <2> DEFINE r == Suffix(b, i)
             k == i - (IndexOf(r, m) + Len(m))
  <2>2. i \in 0..Len(b) /\ i \in 0..Len(s) /\ g[i] # h[i]
    BY <1>2, <1>3, <2>1
  <2>3. Suffix(s, i) = r
    <3> DEFINE n == Len(b)
    <3>1. n \in 0..Len(s) /\ i \in 0..n /\ Suffix(s, n) = b
      BY <1>2, <1>3, <1>4, <2>2
    <3> HIDE DEF n
    <3>2. Suffix(Suffix(s, n), i) = Suffix(s, i)
      BY <1>2, <3>1, SuffixOfSuffix
    <3> QED
      BY <3>1, <3>2
  <2>4. h[i] = IF Occurrences(r, m) = {} THEN <<r>> ELSE <<Part(r, m)>> \o h[k]
    BY <1>6, <2>2, PartsAt
  <2>5. g[i] = IF Occurrences(r, m) = {} THEN <<r>> ELSE <<Part(r, m)>> \o g[k]
    <3>1. g[i] = IF Occurrences(Suffix(s, i), m) = {} THEN <<Suffix(s, i)>>
                 ELSE <<Part(Suffix(s, i), m)>> \o g[i - (IndexOf(Suffix(s, i), m) + Len(m))]
      BY <1>5, <2>2, PartsAt
    <3> QED
      BY <2>3, <3>1, Zenon
  <2>6. ASSUME Occurrences(r, m) # {} PROVE g[k] = h[k]
    <3>1. k \in 0..(i - 1)
      BY <1>1, <2>2, <2>6, PartsShorter
    <3> HIDE DEF k
    <3> QED
      BY <1>3, <2>1, <2>2, <3>1
  <2> HIDE DEF r, k
  <2>7. g[i] = h[i]
    BY <2>4, <2>5, <2>6, Zenon
  <2> QED
    BY <2>2, <2>7
<1>8. g[Len(b)] = h[Len(b)]
  BY <1>3, <1>7
<1>9. g[Len(s)] = <<a>> \o g[Len(b)]
  <2> DEFINE l == Len(s)
             n == Len(b)
             o == IndexOf(s, m) + Len(m)
  <2>1. Parts(s, m, g, l) /\ l \in 0..l /\ Suffix(s, l) = s /\ l - o = n
    BY <1>2, <1>3, <1>5, WholeSuffix
  <2> HIDE DEF l, n
  <2>2. g[l] = IF Occurrences(Suffix(s, l), m) = {} THEN <<Suffix(s, l)>>
               ELSE <<Part(Suffix(s, l), m)>> \o g[l - (IndexOf(Suffix(s, l), m) + Len(m))]
    BY <2>1, PartsAt
  <2>3. g[l] = <<Part(s, m)>> \o g[l - o]
    BY <1>2, <2>1, <2>2, Zenon
  <2> HIDE DEF o
  <2> QED
    BY <1>2, <2>1, <2>3 DEF l, n
<1> QED
  BY <1>5, <1>6, <1>8, <1>9

\* What lies between a and b is split at the tags in it.
SplitAt(a, b, m) ==
  LET k == FirstIn({m}, a, b)
      s == Between(a, b)
      y == Symbols(m)
  IN  Split(s, y) = IF k = b THEN <<s>> ELSE <<Between(a, k)>> \o Split(Between(k, b), y)

LEMMA SplitAtTag ==
  ASSUME page \in Seq(Piece), NEW a \in Nat, NEW b \in Nat, a < b, b <= Len(page) + 1,
         NEW m \in Piece, m # "quote"
  PROVE  SplitAt(a, b, m)
<1> DEFINE k == FirstIn({m}, a, b)
           s == Between(a, b)
           y == Symbols(m)
<1>1. y \in Seq(Sym) /\ Len(y) >= 1 /\ s \in Seq(Sym)
  <2>1. y \in Seq(Sym) /\ Len(y) \in {1, 2, 3}
    BY SymbolsTyped
  <2>2. s \in Seq(Sym)
    BY BetweenTyped
  <2>3. Len(y) >= 1
    <3> DEFINE l == Len(y)
    <3>1. l \in {1, 2, 3}
      BY <2>1
    <3> HIDE DEF l
    <3>2. l >= 1
      BY <3>1
    <3> QED
      BY <3>2 DEF l
  <2> HIDE DEF s, y
  <2> QED
    BY <2>1, <2>2, <2>3
<1>2. k = b => Occurrences(s, y) = {}
  <2>1. Searched(a, b, m)
    BY TagSearched
  <2> QED
    BY <2>1, Zenon DEF Searched
<1>3. ASSUME k = b PROVE Split(s, y) = <<s>>
  <2>1. Occurrences(s, y) = {}
    BY <1>2, <1>3
  <2> HIDE DEF s, y
  <2> QED
    BY <1>1, <2>1, SplitNone
<1>4. ASSUME k # b PROVE Split(s, y) = <<Between(a, k)>> \o Split(Between(k, b), y)
  <2>1. IsCut(Sym, s, Between(a, k), y, Between(k, b))
    BY <1>4, TagIsCut
  <2> HIDE DEF s, y, k
  <2> QED
    BY <2>1, SplitCons
<1> QED
  BY <1>3, <1>4, Zenon DEF SplitAt

------------------------------------------------------------------------------
(* ArticleAt: the articles, one behind the other.                          *)

StepField(g, k) == IF k = 0 THEN 0 ELSE FirstIn({"article"}, g[k - 1], Len(page) + 1)
Steps(g, n) == g = [k \in 0..n |-> StepField(g, k)]

LEMMA StepsExist == \A n \in Nat : \E g : Steps(g, n)
<1> DEFINE Lacking == {n \in Nat : ~\E g : Steps(g, n)}
<1> SUFFICES ASSUME Lacking # {} PROVE FALSE
  OBVIOUS
<1>1. PICK n \in Lacking : \A k \in Lacking : n <= k
  BY LeastNatural
<1>2. PICK g : n # 0 => Steps(g, n - 1)
  <2>1. CASE n = 0
    BY <2>1
  <2>2. CASE n # 0
    BY <1>1, <2>2
  <2> QED
    BY <2>1, <2>2
<1> DEFINE longer == [k \in 0..n |-> IF k = n THEN StepField(g, n) ELSE g[k]]
<1>3. ASSUME NEW k \in 0..n PROVE longer[k] = StepField(longer, k)
  <2>1. ASSUME k # 0 PROVE longer[k - 1] = g[k - 1]
    BY <1>1, <2>1
  <2>2. longer[k] = IF k = n THEN StepField(g, n) ELSE g[k]
    OBVIOUS
  <2> HIDE DEF longer
  <2>3. StepField(longer, k) = StepField(g, k)
    BY <2>1 DEF StepField
  <2>4. k # n => g[k] = StepField(g, k)
    <3> SUFFICES ASSUME k # n PROVE g[k] = StepField(g, k)
      OBVIOUS
    <3>1. n # 0 /\ k \in 0..(n - 1)
      BY <1>1
    <3> QED
      BY <1>2, <3>1 DEF Steps
  <2> QED
    BY <2>2, <2>3, <2>4
<1>4. longer = [k \in 0..n |-> StepField(longer, k)]
  <2>1. longer = [k \in 0..n |-> longer[k]]
    OBVIOUS
  <2> HIDE DEF longer
  <2> QED
    BY <1>3, <2>1
<1> QED
  BY <1>1, <1>4 DEF Steps

LEMMA ArticleAtIs ==
  ASSUME Len(page) \in Nat
  PROVE  /\ ArticleAt[0] = 0
         /\ \A k \in 0..Len(page) : ArticleAt[k + 1] = ArticleEnd(ArticleAt[k])
<1> DEFINE b == Len(page) + 1
<1>1. b \in Nat
  OBVIOUS
<1>2. \E g : Steps(g, b)
  BY <1>1, StepsExist
<1>3. Steps(ArticleAt, b)
  BY <1>2, Zenon DEF ArticleAt, Steps, StepField
<1>4. \A k \in 0..b : ArticleAt[k] = StepField(ArticleAt, k)
  BY <1>3 DEF Steps
<1>5. ArticleAt[0] = 0
  BY <1>1, <1>4 DEF StepField
<1>6. ASSUME NEW k \in 0..Len(page) PROVE ArticleAt[k + 1] = ArticleEnd(ArticleAt[k])
  <2>1. k + 1 \in 0..b /\ k + 1 # 0 /\ (k + 1) - 1 = k
    OBVIOUS
  <2>2. ArticleAt[k + 1] = StepField(ArticleAt, k + 1)
    BY <1>4, <2>1
  <2> QED
    BY <2>1, <2>2 DEF StepField, ArticleEnd
<1> QED
  BY <1>5, <1>6

\* An article is behind the one before it, and the page's end behind them all.
LEMMA ArticlesInOrder ==
  ASSUME Len(page) \in Nat, NEW k \in 0..Len(page)
  PROVE  /\ ArticleAt[k] \in 0..(Len(page) + 1)
         /\ ArticleAt[k] <= Len(page) =>
              /\ ArticleAt[k + 1] \in (ArticleAt[k] + 1)..(Len(page) + 1)
              /\ ArticleAt[k + 1] <= Len(page) => page[ArticleAt[k + 1]] = "article"
         /\ ArticleAt[k] = Len(page) + 1 => ArticleAt[k + 1] = Len(page) + 1
<1> DEFINE b == Len(page) + 1
           At(i) == ArticleAt[i]
           Bad == {i \in Nat : i <= Len(page) /\ At(i) \notin 0..b}
<1>1. ASSUME NEW i \in 0..Len(page), At(i) \in 0..b
      PROVE  /\ At(i) <= Len(page) =>
                  /\ At(i + 1) \in (At(i) + 1)..b
                  /\ At(i + 1) <= Len(page) => page[At(i + 1)] = "article"
             /\ At(i) = b => At(i + 1) = b
  <2> DEFINE a == At(i)
             c == At(i + 1)
  <2>1. c = FirstIn({"article"}, a, b)
    BY ArticleAtIs DEF ArticleEnd
  <2>2. a \in Nat /\ b \in Nat
    BY <1>1
  <2> HIDE DEF a, c, At
  <2>3. ASSUME a <= Len(page)
        PROVE  c \in (a + 1)..b /\ (c <= Len(page) => page[c] = "article")
    <3>1. a < b
      BY <2>2, <2>3
    <3> HIDE DEF b
    <3>2. c \in (a + 1)..b /\ (c < b => page[c] \in {"article"})
      BY <2>1, <2>2, <3>1, FirstInFinds
    <3>3. c <= Len(page) => c < b
      BY <2>2, <3>2 DEF b
    <3> QED
      BY <3>2, <3>3
  <2>4. ASSUME a = b PROVE c = b
    BY <2>1, <2>2, <2>4, NoneBehind
  <2> QED
    BY <2>3, <2>4 DEF a, c
<1>2. Bad = {}
  <2> SUFFICES ASSUME Bad # {} PROVE FALSE
    OBVIOUS
  <2>1. PICK i \in Bad : \A j \in Bad : i <= j
    BY LeastNatural
  <2>2. At(0) = 0
    BY ArticleAtIs
  <2> HIDE DEF At
  <2>3. i # 0
    BY <2>1, <2>2
  <2> DEFINE j == i - 1
  <2>4. j \in Nat /\ j < i /\ j + 1 = i /\ j \in 0..Len(page)
    BY <2>1, <2>3
  <2> HIDE DEF j
  <2>5. At(j) \in 0..b
    BY <2>1, <2>4
  <2>6. At(j) <= Len(page) \/ At(j) = b
    BY <2>5
  <2>7. At(i) \in 0..b
    <3>1. At(j) <= Len(page) => At(i) \in (At(j) + 1)..b
      BY <1>1, <2>4, <2>5
    <3>2. At(j) = b => At(i) = b
      BY <1>1, <2>4, <2>5
    <3> QED
      BY <2>5, <2>6, <3>1, <3>2
  <2> QED
    BY <2>1, <2>7
<1>3. At(k) \in 0..b
  <2> HIDE DEF At
  <2> QED
    BY <1>2
<1>4. /\ At(k) <= Len(page) =>
           /\ At(k + 1) \in (At(k) + 1)..b
           /\ At(k + 1) <= Len(page) => page[At(k + 1)] = "article"
      /\ At(k) = b => At(k + 1) = b
  BY <1>1, <1>3
<1> QED
  BY <1>3, <1>4

\* The parts of a page of articles are what is in front of the first, and then
\* the articles: P[n + 1] is the one at ArticleAt[n].
Parted(P) ==
  /\ P \in Seq(Seq(Sym)) /\ Len(P) \in 1..(Len(page) + 1)
  /\ ArticleAt[Len(P)] = Len(page) + 1
  /\ \A n \in 0..(Len(P) - 1) :
       /\ ArticleAt[n] \in 0..Len(page)
       /\ n # 0 => ArticleAt[n] # 0 /\ page[ArticleAt[n]] = "article"
       /\ P[n + 1] = Between(ArticleAt[n], ArticleEnd(ArticleAt[n]))

\* From the (n + 1)st on, P are those of what is left of the page at ArticleAt[n].
Rest(n) == Split(Between(ArticleAt[n], Len(page) + 1), Symbols("article"))
Walked(P, n) ==
  /\ Len(P) = n + Len(Rest(n))
  /\ \A i \in 1..Len(Rest(n)) : P[n + i] = Rest(n)[i]

LEMMA RestIs ==
  ASSUME page \in Seq(Piece), NEW n \in 0..Len(page), ArticleAt[n] <= Len(page)
  PROVE  LET x == Between(ArticleAt[n], ArticleEnd(ArticleAt[n]))
         IN  /\ x \in Seq(Sym) /\ Rest(n) \in Seq(Seq(Sym)) /\ Rest(n) # <<>>
             /\ Rest(n) = IF ArticleAt[n + 1] = Len(page) + 1 THEN <<x>> ELSE <<x>> \o Rest(n + 1)
<1> DEFINE b == Len(page) + 1
           a == ArticleAt[n]
           c == ArticleAt[n + 1]
           x == Between(a, ArticleEnd(a))
           y == Symbols("article")
<1>1. Len(page) \in Nat
  BY LenProperties
<1>2. a \in 0..b /\ a <= Len(page) /\ c \in (a + 1)..b /\ c = ArticleEnd(a)
  BY <1>1, ArticlesInOrder, ArticleAtIs
<1>3. a \in Nat /\ b \in Nat /\ a < b /\ b <= Len(page) + 1 /\ c \in Nat /\ c <= Len(page) + 1
  BY <1>1, <1>2
<1>4. c = FirstIn({"article"}, a, b)
  BY <1>2 DEF ArticleEnd
<1>5. x = Between(a, c)
  BY <1>2
<1>6. Rest(n) = Split(Between(a, b), y) /\ Rest(n + 1) = Split(Between(c, b), y)
  BY Zenon DEF Rest
<1> HIDE DEF a, b, c, x, y
<1>7. x \in Seq(Sym) /\ Between(a, b) \in Seq(Sym)
  BY <1>3, <1>5, BetweenTyped
<1>8. Rest(n) \in Seq(Seq(Sym)) /\ Rest(n) # <<>>
  <2> DEFINE s == Between(a, b)
  <2>1. y \in Seq(Sym) /\ Len(y) \in {1, 2, 3} /\ s \in Seq(Sym)
    <3>1. "article" \in Piece
      BY DEF Piece
    <3> QED
      BY <1>7, <3>1, SymbolsTyped DEF y
  <2>2. Len(y) >= 1
    <3> DEFINE l == Len(y)
    <3>1. l \in {1, 2, 3}
      BY <2>1
    <3> HIDE DEF l
    <3>2. l >= 1
      BY <3>1
    <3> QED
      BY <3>2 DEF l
  <2> HIDE DEF s
  <2>3. AreParts(Sym, s, y, Split(s, y))
    BY <2>1, <2>2, SplitIs
  <2> QED
    BY <1>6, <2>3 DEF AreParts, s
<1>9. Rest(n) = IF c = b THEN <<Between(a, b)>> ELSE <<Between(a, c)>> \o Rest(n + 1)
  <2>1. SplitAt(a, b, "article")
    <3>1. "article" \in Piece
      BY DEF Piece
    <3> QED
      BY <1>3, <3>1, SplitAtTag
  <2> QED
    BY <1>4, <1>6, <2>1, Zenon DEF SplitAt, y
<1>10. Rest(n) = IF c = b THEN <<x>> ELSE <<x>> \o Rest(n + 1)
  BY <1>5, <1>9
<1> QED
  BY <1>7, <1>8, <1>10 DEF x, a, b, c

LEMMA Walk ==
  ASSUME PageIInv, NEW P, P = Split(Text(page), Symbols("article"))
  PROVE  \A n \in 0..Len(page) :
           ArticleAt[n] <= Len(page) => n <= ArticleAt[n] /\ Walked(P, n)
<1> DEFINE L == Len(page)
           At(n) == ArticleAt[n]
           Bad == {n \in Nat : n <= L /\ At(n) <= L /\ ~(n <= At(n) /\ Walked(P, n))}
<1>1. page \in Seq(Piece) /\ L \in Nat /\ Between(0, L + 1) = Text(page)
  BY WholePage
<1>2. Bad = {}
  <2> SUFFICES ASSUME Bad # {} PROVE FALSE
    OBVIOUS
  <2>1. PICK n \in Bad : \A k \in Bad : n <= k
    BY LeastNatural
  <2>2. At(0) = 0
    BY <1>1, ArticleAtIs
  <2>3. CASE n = 0
    <3>1. Rest(0) = P
      BY <1>1, <2>2 DEF Rest
    <3>2. /\ Rest(0) \in Seq(Seq(Sym))
      <4>1. 0 \in 0..Len(page) /\ ArticleAt[0] <= Len(page)
        BY <1>1, <2>2
      <4> QED
        BY <1>1, <4>1, RestIs
    <3> DEFINE R == Rest(0)
    <3>3. Len(R) \in Nat
      BY <3>2, LenProperties
    <3> HIDE DEF R
    <3>4. Len(P) = 0 + Len(R)
      BY <3>1, <3>3 DEF R
    <3>5. \A i \in 1..Len(R) : P[0 + i] = R[i]
      <4> TAKE i \in 1..Len(R)
      <4>1. 0 + i = i
        BY <3>3
      <4> QED
        BY <3>1, <4>1 DEF R
    <3>6. Walked(P, 0)
      BY <3>4, <3>5 DEF Walked, R
    <3> QED
      BY <2>1, <2>2, <2>3, <3>6
  <2>4. CASE n # 0
    <3> DEFINE j == n - 1
    <3>1. j \in Nat /\ j < n /\ j + 1 = n /\ j <= L /\ n \in Nat /\ n <= L /\ At(n) <= L
      BY <2>1, <2>4
    <3> HIDE DEF j, At
    <3>2. j \in 0..L /\ n \in 0..L
      BY <1>1, <3>1
    <3>3. /\ At(j) \in 0..(L + 1)
          /\ At(j) <= L => At(n) \in (At(j) + 1)..(L + 1)
          /\ At(j) = L + 1 => At(n) = L + 1
      <4> DEFINE i == j + 1
      <4>1. i = n
        BY <3>1
      <4>2. /\ At(j) \in 0..(L + 1)
            /\ At(j) <= L => At(i) \in (At(j) + 1)..(L + 1)
            /\ At(j) = L + 1 => At(i) = L + 1
        BY <1>1, <3>2, ArticlesInOrder DEF At
      <4> QED
        BY <4>1, <4>2
    <3>4. At(j) <= L /\ At(n) # L + 1 /\ At(n) \in (At(j) + 1)..(L + 1)
      BY <1>1, <3>1, <3>3
    <3>5. j <= At(j) /\ Walked(P, j)
      BY <2>1, <3>1, <3>4
    <3>6. n <= At(n)
      BY <1>1, <3>1, <3>3, <3>4, <3>5
    <3> DEFINE x == Between(ArticleAt[j], ArticleEnd(ArticleAt[j]))
               Q == Rest(j)
               R == Rest(n)
    <3>7. x \in Seq(Sym) /\ Q = <<x>> \o R
      <4> DEFINE i == j + 1
      <4>1. i = n /\ ArticleAt[j] <= Len(page)
        BY <3>1, <3>4 DEF At
      <4>2. /\ x \in Seq(Sym)
            /\ Q = IF ArticleAt[i] = L + 1 THEN <<x>> ELSE <<x>> \o Rest(i)
        BY <1>1, <3>2, <4>1, RestIs
      <4> HIDE DEF i
      <4> QED
        BY <3>4, <4>1, <4>2 DEF At
    <3>8. R \in Seq(Seq(Sym))
      <4>1. ArticleAt[n] <= Len(page)
        BY <3>1 DEF At
      <4> QED
        BY <1>1, <3>2, <4>1, RestIs
    <3>9. Len(P) = j + Len(Q) /\ \A i \in 1..Len(Q) : P[j + i] = Q[i]
      BY <3>5 DEF Walked
    <3> HIDE DEF x, Q, R
    <3>10. Len(Q) = Len(R) + 1 /\ \A k \in 1..Len(R) : Q[k + 1] = R[k]
      <4> DEFINE T == Seq(Sym)
      <4>1. x \in T /\ R \in Seq(T)
        BY <3>7, <3>8
      <4> HIDE DEF T
      <4>2. Len(<<x>> \o R) = Len(R) + 1 /\ \A k \in 1..Len(R) : (<<x>> \o R)[k + 1] = R[k]
        BY <4>1, ConsIs
      <4> QED
        BY <3>7, <4>2
    <3>11. Len(R) \in Nat
      BY <3>8, LenProperties
    <3>12. Len(P) = n + Len(R)
      BY <3>1, <3>9, <3>10, <3>11
    <3>13. ASSUME NEW i \in 1..Len(R) PROVE P[n + i] = R[i]
      <4> DEFINE k == i + 1
      <4>1. k \in 1..Len(Q) /\ j + k = n + i
        BY <3>1, <3>10, <3>11
      <4>2. Q[k] = R[i]
        BY <3>10
      <4> HIDE DEF k
      <4>3. P[j + k] = Q[k]
        BY <3>9, <4>1
      <4> QED
        BY <4>1, <4>2, <4>3
    <3>14. Walked(P, n)
      BY <3>12, <3>13 DEF Walked, R
    <3> QED
      BY <2>1, <3>6, <3>14
  <2> QED
    BY <2>3, <2>4
<1> HIDE DEF At
<1>3. \A n \in 0..L : At(n) <= L => n <= At(n) /\ Walked(P, n)
  BY <1>1, <1>2
<1> QED
  BY <1>3 DEF At

LEMMA RestStarts ==
  ASSUME page \in Seq(Piece), NEW n \in 0..Len(page),
         ArticleAt[n] <= Len(page), n <= ArticleAt[n]
  PROVE  /\ 1 \in 1..Len(Rest(n))
         /\ Rest(n)[1] = Between(ArticleAt[n], ArticleEnd(ArticleAt[n]))
         /\ ArticleAt[n + 1] = Len(page) + 1 => Len(Rest(n)) = 1
<1> DEFINE x == Between(ArticleAt[n], ArticleEnd(ArticleAt[n]))
           Q == Rest(n)
           T == Seq(Sym)
           i == n + 1
<1>1. /\ x \in T /\ Q \in Seq(T) /\ Q # <<>>
      /\ Q = IF ArticleAt[i] = Len(page) + 1 THEN <<x>> ELSE <<x>> \o Rest(i)
  BY RestIs
<1>2. CASE ArticleAt[i] = Len(page) + 1
  <2>1. Q = <<x>>
    BY <1>1, <1>2
  <2> HIDE DEF Q, x
  <2>2. Len(Q) = 1 /\ Q[1] = x
    BY <2>1
  <2> QED
    BY <2>2 DEF Q, x
<1>3. CASE ArticleAt[i] # Len(page) + 1
  <2> DEFINE R == Rest(i)
  <2>1. Q = <<x>> \o R
    BY <1>1, <1>3
  <2>2. Len(page) \in Nat
    BY LenProperties
  <2>3. ArticleAt[i] \in (ArticleAt[n] + 1)..(Len(page) + 1) /\ ArticleAt[n] \in 0..(Len(page) + 1)
    BY <2>2, ArticlesInOrder
  <2>4. ArticleAt[i] <= Len(page) /\ i \in 0..Len(page)
    <3> DEFINE k == ArticleAt[i]
    <3>1. k # Len(page) + 1 /\ k \in (ArticleAt[n] + 1)..(Len(page) + 1)
      BY <1>3, <2>3
    <3>2. ArticleAt[n] \in 0..(Len(page) + 1) /\ n <= ArticleAt[n]
      BY <2>3
    <3> HIDE DEF k
    <3> QED
      BY <2>2, <3>1, <3>2 DEF k
  <2>5. R \in Seq(T) /\ R # <<>>
    BY <2>4, RestIs
  <2> HIDE DEF R, Q, x, T, i
  <2>6. Len(<<x>> \o R) = Len(R) + 1 /\ (<<x>> \o R)[1] = x /\ Len(R) \in Nat
    BY <1>1, <2>5, ConsIs, LenProperties
  <2>7. Q[1] = x /\ 1 \in 1..Len(Q)
    BY <2>1, <2>6
  <2> QED
    BY <1>3, <2>7 DEF Q, x, i
<1> QED
  BY <1>2, <1>3

LEMMA ArticlesParted ==
  ASSUME PageIInv
  PROVE  Parted(Split(Text(page), Symbols("article")))
<1> DEFINE L == Len(page)
           b == L + 1
           P == Split(Text(page), Symbols("article"))
           At(n) == ArticleAt[n]
           Ends == {n \in Nat : n <= b /\ At(n) = b}
<1>1. page \in Seq(Piece) /\ L \in Nat /\ Between(0, b) = Text(page)
  BY WholePage
<1>2. P \in Seq(Seq(Sym))
  <2> DEFINE y == Symbols("article")
             s == Text(page)
  <2>1. "article" \in Piece
    BY DEF Piece
  <2>2. y \in Seq(Sym) /\ Len(y) \in {1, 2, 3} /\ s \in Seq(Sym)
    BY <1>1, <2>1, SymbolsTyped, TextTyped
  <2>3. Len(y) >= 1
    <3> DEFINE l == Len(y)
    <3>1. l \in {1, 2, 3}
      BY <2>2
    <3> HIDE DEF l
    <3>2. l >= 1
      BY <3>1
    <3> QED
      BY <3>2 DEF l
  <2> HIDE DEF s, y
  <2>4. AreParts(Sym, s, y, Split(s, y))
    BY <2>2, <2>3, SplitIs
  <2> QED
    BY <2>4 DEF AreParts, s, y
<1>3. \A n \in 0..L : ArticleAt[n] <= L => n <= ArticleAt[n] /\ Walked(P, n)
  BY Walk
<1>4. /\ At(0) = 0
      /\ \A n \in 0..L : At(n) \in 0..b
      /\ \A n \in 0..L : At(n) = b => At(n + 1) = b
      /\ \A n \in 0..L : At(n) <= L => At(n + 1) \in (At(n) + 1)..b
      /\ \A n \in 0..L : At(n) <= L /\ At(n + 1) <= L => page[At(n + 1)] = "article"
      /\ \A n \in 0..L : At(n + 1) = ArticleEnd(At(n))
  BY <1>1, ArticlesInOrder, ArticleAtIs
<1> HIDE DEF P
<1>5. \A n \in 0..L : At(n) <= L =>
        /\ Len(P) = n + Len(Rest(n))
        /\ P[n + 1] = Between(At(n), ArticleEnd(At(n)))
        /\ At(n + 1) = b => Len(Rest(n)) = 1
  <2> SUFFICES ASSUME NEW n \in 0..L, At(n) <= L
               PROVE  /\ Len(P) = n + Len(Rest(n))
                      /\ P[n + 1] = Between(At(n), ArticleEnd(At(n)))
                      /\ At(n + 1) = b => Len(Rest(n)) = 1
    OBVIOUS
  <2>1. n <= ArticleAt[n] /\ Walked(P, n)
    BY <1>3
  <2>2. Len(P) = n + Len(Rest(n)) /\ \A i \in 1..Len(Rest(n)) : P[n + i] = Rest(n)[i]
    BY <2>1 DEF Walked
  <2>3. /\ 1 \in 1..Len(Rest(n))
        /\ Rest(n)[1] = Between(ArticleAt[n], ArticleEnd(ArticleAt[n]))
        /\ ArticleAt[n + 1] = Len(page) + 1 => Len(Rest(n)) = 1
    BY <1>1, <2>1, RestStarts
  <2> QED
    BY <2>2, <2>3
<1> HIDE DEF At
<1>6. b \in Ends
  <2>1. L \in 0..L
    BY <1>1
  <2>2. At(L) \in 0..b /\ (At(L) <= L => L <= At(L))
    BY <1>3, <1>4, <2>1 DEF At
  <2>3. At(L) = b => At(L + 1) = b
    BY <1>4, <2>1
  <2>4. At(L) <= L => At(L + 1) \in (At(L) + 1)..b
    BY <1>4, <2>1
  <2> DEFINE c == At(L + 1)
             a == At(L)
  <2>5. c = b
    <3> HIDE DEF c, a
    <3>1. a \in 0..b /\ (a <= L => L <= a) /\ (a = b => c = b) /\ (a <= L => c \in (a + 1)..b)
      BY <2>2, <2>3, <2>4 DEF c, a
    <3> QED
      BY <1>1, <3>1
  <2> QED
    BY <1>1, <2>5
<1>7. PICK d \in Ends : \A k \in Ends : d <= k
  BY <1>6, LeastNatural
<1>8. d \in 1..b /\ At(d) = b
  <2>1. d # 0
    BY <1>1, <1>4, <1>7
  <2> QED
    BY <1>1, <1>7, <2>1
<1>9. ASSUME NEW n \in 0..(d - 1) PROVE n \in 0..L /\ At(n) \in 0..L
  <2>1. n \in 0..L
    BY <1>1, <1>8
  <2>2. At(n) # b
    BY <1>1, <1>7, <1>8, <2>1
  <2>3. At(n) \in 0..b
    BY <1>4, <2>1
  <2> QED
    BY <1>1, <2>1, <2>2, <2>3
<1>10. Len(P) = d
  <2> DEFINE j == d - 1
  <2>1. j \in 0..(d - 1) /\ j + 1 = d
    BY <1>8
  <2>2. j \in 0..L /\ At(j) \in 0..L
    BY <1>9, <2>1
  <2> HIDE DEF j
  <2>3. At(j) <= L
    BY <1>1, <2>2
  <2>4. Len(P) = j + Len(Rest(j)) /\ (At(j + 1) = b => Len(Rest(j)) = 1)
    BY <1>5, <2>2, <2>3
  <2>5. Len(Rest(j)) = 1
    BY <1>8, <2>1, <2>4
  <2> QED
    BY <2>1, <2>4, <2>5
<1>11. ASSUME NEW n \in 0..(d - 1)
       PROVE  /\ At(n) \in 0..L /\ (n # 0 => At(n) # 0 /\ page[At(n)] = "article")
              /\ P[n + 1] = Between(At(n), ArticleEnd(At(n)))
  <2>1. n \in 0..L /\ At(n) \in 0..L
    BY <1>9
  <2>2. At(n) <= L
    BY <1>1, <2>1
  <2>3. P[n + 1] = Between(At(n), ArticleEnd(At(n)))
    BY <1>5, <2>1, <2>2
  <2>4. ASSUME n # 0 PROVE At(n) # 0 /\ page[At(n)] = "article"
    <3> DEFINE j == n - 1
    <3>1. j \in 0..(d - 1) /\ j + 1 = n
      BY <1>8, <2>4
    <3> HIDE DEF j
    <3>2. j \in 0..L /\ At(j) \in 0..L
      BY <1>9, <3>1
    <3>3. At(j) <= L
      BY <1>1, <3>2
    <3>4. At(j + 1) <= L => page[At(j + 1)] = "article"
      BY <1>4, <3>2, <3>3
    <3>5. At(j + 1) \in (At(j) + 1)..b
      BY <1>4, <3>2, <3>3
    <3>6. At(n) # 0
      <4> DEFINE a == At(j)
                 c == At(j + 1)
      <4>1. c \in (a + 1)..b /\ a \in 0..L
        BY <3>2, <3>5
      <4> HIDE DEF a, c
      <4>2. c # 0
        BY <4>1
      <4> QED
        BY <3>1, <4>2 DEF c
    <3> QED
      BY <2>2, <3>1, <3>4, <3>6
  <2> QED
    BY <2>1, <2>3, <2>4
<1>12. Parted(P)
  BY <1>2, <1>8, <1>10, <1>11 DEF Parted, At
<1> QED
  BY <1>12 DEF P

------------------------------------------------------------------------------
(* What goes into dzList.                                                  *)

LEMMA TailIs ==
  ASSUME NEW T, NEW P \in Seq(T), Len(P) >= 1
  PROVE  /\ DOMAIN Tail(P) = 1..(Len(P) - 1) /\ Len(Tail(P)) = Len(P) - 1
         /\ \A k \in 1..(Len(P) - 1) : Tail(P)[k] = P[k + 1]
<1>1. P # <<>> /\ Len(P) \in Nat
  <2>1. Len(P) # 0 /\ Len(P) \in Nat
    BY LenProperties
  <2> QED
    BY <2>1, EmptySeq
<1>2. /\ Tail(P) \in Seq(T) /\ Len(Tail(P)) = Len(P) - 1
      /\ \A i \in 1..Len(Tail(P)) : Tail(P)[i] = P[i + 1]
  BY <1>1, HeadTailProperties
<1>3. DOMAIN Tail(P) = 1..Len(Tail(P))
  BY <1>2, LenProperties
<1> QED
  BY <1>2, <1>3

LEMMA MinFirst ==
  ASSUME NEW S \in SUBSET Nat, S # {}
  PROVE  Min(S) \in S /\ \A k \in S : Min(S) <= k
<1>1. PICK m \in S : \A k \in S : m <= k
  BY LeastNatural
<1>2. Min(S) = m
  BY <1>1, MinIs
<1> QED
  BY <1>1, <1>2

LEMMA OnlyOne == ASSUME NEW d PROVE (CHOOSE x \in {d} : TRUE) = d
  OBVIOUS

LEMMA ArticlesLoaded ==
  ASSUME PageIInv
  PROVE  ArticlesAreOwn
<1> DEFINE L == Len(page)
           P == Split(Text(page), Symbols("article"))
           N == Len(P) - 1
           At(k) == ArticleAt[k]
           arts == Tail(P)
           Bad == {k \in DOMAIN arts : Article(arts[k]) = {}}
           n == IF Bad = {} THEN Len(arts) ELSE Min(Bad) - 1
           dzs == [k \in 1..n |-> CHOOSE d \in Article(arts[k]) : TRUE]
<1>0. LoadInfo(Text(page)) = [dzs |-> dzs, throws |-> Bad # {}]
  BY Zenon DEF LoadInfo
<1> DEFINE got == LoadInfo(Text(page))
           stop == At(Len(got.dzs) + 1)
<1> SUFFICES ASSUME \A k \in DOMAIN page : page[k] = "article" => Noticed(k)
             PROVE  /\ IF got.throws THEN stop <= Len(page) /\ ~Sound(stop) ELSE stop = Len(page) + 1
                    /\ \A k \in DOMAIN got.dzs : Sound(At(k)) /\ got.dzs[k] = Dz(At(k))
  BY Zenon DEF ArticlesAreOwn, Dz
<1>1. page \in Seq(Piece) /\ L \in Nat /\ DOMAIN page = 1..L
  BY WholePage, LenProperties
<1>2. /\ P \in Seq(Seq(Sym)) /\ N + 1 \in 1..(L + 1) /\ At(N + 1) = L + 1
      /\ \A k \in 0..N : /\ At(k) \in 0..L
                         /\ k # 0 => At(k) # 0 /\ page[At(k)] = "article"
                         /\ P[k + 1] = Between(At(k), ArticleEnd(At(k)))
  <2>1. Parted(P)
    BY ArticlesParted
  <2> HIDE DEF P
  <2>2. Len(P) \in 1..(L + 1)
    BY <2>1 DEF Parted
  <2>3. N + 1 = Len(P)
    BY <1>1, <2>2
  <2> QED
    BY <2>1, <2>2, <2>3 DEF Parted
<1> HIDE DEF P
<1>3. N \in Nat /\ DOMAIN arts = 1..N /\ Len(arts) = N /\ \A k \in 1..N : arts[k] = P[k + 1]
  <2>1. N \in Nat /\ Len(P) >= 1
    <3>1. Len(P) \in Nat
      BY <1>2, LenProperties
    <3> QED
      BY <1>1, <1>2, <3>1
  <2> DEFINE T == Seq(Sym)
  <2>2. P \in Seq(T)
    BY <1>2
  <2> HIDE DEF T
  <2> QED
    BY <2>1, <2>2, TailIs
<1>4. ASSUME NEW k \in 1..N
      PROVE  /\ Article(arts[k]) = IF Sound(At(k)) THEN {Dz(At(k))} ELSE {}
             /\ At(k) \in 1..L
  <2>1. k \in 0..N /\ k # 0 /\ arts[k] = P[k + 1]
    BY <1>3
  <2> HIDE DEF arts, N
  <2>2. /\ At(k) \in 0..L /\ At(k) # 0 /\ page[At(k)] = "article"
        /\ P[k + 1] = Between(At(k), ArticleEnd(At(k)))
    BY <1>2, <2>1
  <2> DEFINE a == At(k)
  <2>3. a \in 1..L /\ page[a] = "article" /\ P[k + 1] = Between(a, ArticleEnd(a))
    BY <1>1, <2>2
  <2> HIDE DEF a
  <2>4. ArticleIs(a)
    <3>1. Noticed(a) /\ a \in 0..Len(page)
      BY <1>1, <2>3
    <3> QED
      BY <1>1, <3>1, ArticleCut
  <2>5. Article(arts[k]) = IF Sound(a) THEN {Dz(a)} ELSE {}
    BY <2>1, <2>3, <2>4 DEF ArticleIs
  <2> QED
    BY <2>3, <2>5 DEF a
<1> HIDE DEF arts, At, N
<1>5. Bad = {k \in 1..N : ~Sound(At(k))}
  <2>1. \A k \in 1..N : Article(arts[k]) = {} <=> ~Sound(At(k))
    BY <1>4
  <2> QED
    BY <1>3, <2>1
<1>6. /\ n \in 0..N /\ \A k \in 1..n : Sound(At(k))
      /\ Bad = {} => n = N
      /\ Bad # {} => n + 1 \in 1..N /\ ~Sound(At(n + 1))
  <2>1. CASE Bad = {}
    <3>1. n = N
      BY <1>3, <2>1
    <3>2. \A k \in 1..N : Sound(At(k))
      BY <1>5, <2>1
    <3> QED
      BY <1>3, <2>1, <3>1, <3>2
  <2>2. CASE Bad # {}
    <3> DEFINE m == Min(Bad)
    <3>1. n = m - 1
      BY <2>2
    <3> HIDE DEF n
    <3>2. Bad \in SUBSET Nat
      BY <1>3, <1>5
    <3>3. m \in Bad /\ \A k \in Bad : m <= k
      <4> HIDE DEF Bad
      <4> QED
        BY <2>2, <3>2, MinFirst
    <3> HIDE DEF m
    <3>4. m \in 1..N /\ ~Sound(At(m)) /\ \A k \in 1..N : ~Sound(At(k)) => m <= k
      BY <1>5, <3>3
    <3> HIDE DEF Bad
    <3>5. n \in 0..N /\ n + 1 = m
      BY <1>3, <3>1, <3>4
    <3>6. \A k \in 1..n : Sound(At(k))
      <4> TAKE k \in 1..n
      <4>1. k \in 1..N /\ ~(m <= k)
        BY <1>3, <3>1, <3>4, <3>5
      <4> QED
        BY <3>4, <4>1
    <3> QED
      BY <2>2, <3>4, <3>5, <3>6
  <2> QED
    BY <2>1, <2>2
<1> HIDE DEF Bad, n
<1>7. \A k \in 1..n : dzs[k] = Dz(At(k))
  <2> TAKE k \in 1..n
  <2>1. k \in 1..N /\ Sound(At(k))
    BY <1>3, <1>6
  <2>2. Article(arts[k]) = {Dz(At(k))}
    BY <1>4, <2>1
  <2>3. dzs[k] = CHOOSE d \in Article(arts[k]) : TRUE
    OBVIOUS
  <2> QED
    BY <2>2, <2>3, OnlyOne
<1>8. DOMAIN dzs = 1..n /\ Len(dzs) = n
  <2> DEFINE V == {dzs[k] : k \in 1..n}
  <2>1. dzs \in [1..n -> V] /\ DOMAIN dzs = 1..n
    OBVIOUS
  <2>2. n \in Nat
    BY <1>3, <1>6
  <2> HIDE DEF V, dzs
  <2> QED
    BY <2>1, <2>2
<1> HIDE DEF dzs
<1>9. got.dzs = dzs /\ got.throws = (Bad # {})
  BY <1>0
<1> HIDE DEF got
<1>10. stop = At(n + 1)
  BY <1>8, <1>9
<1>11. CASE Bad = {}
  <2>1. stop = L + 1 /\ ~got.throws
    BY <1>2, <1>6, <1>9, <1>10, <1>11
  <2> QED
    BY <1>6, <1>7, <1>8, <1>9, <2>1
<1>12. CASE Bad # {}
  <2>1. stop \in 1..L /\ ~Sound(stop) /\ got.throws
    BY <1>4, <1>6, <1>9, <1>10, <1>12
  <2>2. stop <= L
    BY <1>1, <2>1
  <2> QED
    BY <1>6, <1>7, <1>8, <1>9, <2>1, <2>2
<1> QED
  BY <1>11, <1>12

\* On a page of articles, however long and however many, what goes into dzList is
\* what the articles hold, each with the id and the content of its own, up to the
\* first that cannot be cut (loadInfo of QSBKFetcher); for articles that lack none
\* of the three markers the code does not test for.
THEOREM ArticlesOfPage == Spec => []ArticlesAreOwn
<1>1. Spec => []PageIInv
  BY PageInit, PageStep, PTL DEF Spec
<1>2. PageIInv => ArticlesAreOwn
  BY ArticlesLoaded
<1> QED
  BY <1>1, <1>2, PTL

------------------------------------------------------------------------------
(* trim, and what indexOf finds in what is left.                           *)

LEMMA MaxLast ==
  ASSUME NEW n \in Nat, NEW S \in SUBSET (0..n), S # {}
  PROVE  Max(S) \in S /\ \A k \in S : k <= Max(S)
<1> DEFINE D == {i \in Nat : i <= n /\ n - i \in S}
<1>1. PICK k \in S : TRUE
  OBVIOUS
<1>2. n - k \in D
  <2>1. k \in 0..n
    BY <1>1
  <2> QED
    BY <2>1
<1>3. PICK i \in D : \A j \in D : i <= j
  <2>1. D \in SUBSET Nat /\ D # {}
    BY <1>2
  <2> HIDE DEF D
  <2> QED
    BY <2>1, LeastNatural
<1> DEFINE m == n - i
<1>4. m \in S /\ \A j \in S : j <= m
  <2>1. \A j \in S : j \in 0..n /\ n - j \in D
    <3> TAKE j \in S
    <3>1. j \in 0..n
      OBVIOUS
    <3>2. n - (n - j) = j /\ n - j \in Nat /\ n - j <= n
      BY <3>1
    <3> QED
      BY <3>1, <3>2
  <2>2. i \in Nat /\ m \in S
    BY <1>3
  <2>3. \A j \in S : i <= n - j
    BY <1>3, <2>1
  <2>4. \A j \in S : j <= m
    BY <2>1, <2>2, <2>3
  <2> QED
    BY <2>2, <2>4
<1> HIDE DEF m
<1>5. \E x \in S : \A y \in S : x >= y
  <2>1. \A y \in S : m >= y
    <3> TAKE y \in S
    <3>1. y \in 0..n /\ m \in 0..n /\ y <= m
      BY <1>4
    <3> QED
      BY <3>1
  <2> QED
    BY <1>4, <2>1
<1>6. Max(S) \in S /\ \A y \in S : Max(S) >= y
  BY <1>5, Zenon DEF Max
<1>7. \A y \in S : y <= Max(S)
  <2> TAKE y \in S
  <2> DEFINE x == Max(S)
  <2>1. x \in 0..n /\ y \in 0..n /\ x >= y
    BY <1>6
  <2> HIDE DEF x
  <2>2. y <= x
    BY <2>1
  <2> QED
    BY <2>2 DEF x
<1> QED
  BY <1>6, <1>7

\* A symbol that trim leaves alone is not the first that is left just if
\* something that is no blank is in front of it.
LEMMA TrimFinds ==
  ASSUME NEW T, NEW s \in Seq(T), NEW k \in 1..Len(s), ~IsBlank(s[k]),
         \A j \in 1..(k - 1) : s[j] # s[k]
  PROVE  IndexOf(Trim(s), <<s[k]>>) > 0 <=> \E j \in 1..(k - 1) : ~IsBlank(s[j])
<1> DEFINE L == Len(s)
           Solid == {j \in DOMAIN s : ~IsBlank(s[j])}
           f == Min(Solid)
           l == Max(Solid)
           c == s[k]
           i == k - 1
           n == k + 1
           A == SubSeq(s, f, i)
           B == SubSeq(s, n, l)
           y == <<c>>
           r == Trim(s)
<1>1. L \in Nat /\ DOMAIN s = 1..L /\ k \in 1..L
  BY LenProperties
<1>2. k \in Solid
  BY <1>1
<1>3. Solid \in SUBSET Nat /\ Solid \in SUBSET (0..L) /\ Solid # {}
  BY <1>1, <1>2
<1>4. r = SubSeq(s, f, l)
  BY <1>3, Zenon DEF Trim
<1>5. \A j \in Solid : j \in 1..L /\ ~IsBlank(s[j])
  BY <1>1
<1>6. \A j \in 1..L : ~IsBlank(s[j]) => j \in Solid
  BY <1>1
<1> HIDE DEF Solid, L
<1>7. f \in Solid /\ \A j \in Solid : f <= j
  BY <1>3, MinFirst
<1>8. l \in Solid /\ \A j \in Solid : j <= l
  BY <1>1, <1>3, MaxLast
<1> HIDE DEF f, l
<1>9. f \in 1..L /\ l \in 1..L /\ f <= k /\ k <= l
  BY <1>2, <1>5, <1>7, <1>8
<1>10. /\ f \in 1..(L + 1) /\ i \in (f - 1)..L /\ l \in i..L /\ i + 1 = k
       /\ k \in 1..L /\ l \in k..L
  BY <1>1, <1>9
<1>11. \A j \in 1..L : s[j] \in T
  BY ElementOfSeq DEF L
<1>12. /\ A \in Seq(T) /\ B \in Seq(T) /\ Len(A) = k - f
       /\ \A j \in 1..Len(A) : A[j] = s[f + j - 1]
  <2>1. f \in Int /\ i \in Int /\ n \in Int /\ l \in Int
    BY <1>1, <1>9
  <2>2. \A j \in f..i : s[j] \in T
    <3>1. \A j \in f..i : j \in 1..L
      BY <1>1, <1>9
    <3> QED
      BY <1>11, <3>1
  <2>3. \A j \in n..l : s[j] \in T
    <3>1. \A j \in n..l : j \in 1..L
      BY <1>1, <1>9
    <3> QED
      BY <1>11, <3>1
  <2>4. (IF f <= i THEN i - f + 1 ELSE 0) = k - f /\ i - f + 1 = k - f
    BY <1>1, <1>9
  <2> HIDE DEF i, n
  <2>5. /\ SubSeq(s, f, i) \in Seq(T)
        /\ Len(SubSeq(s, f, i)) = IF f <= i THEN i - f + 1 ELSE 0
        /\ \A j \in 1..(i - f + 1) : SubSeq(s, f, i)[j] = s[f + j - 1]
    BY <2>1, <2>2, SubSeqProperties
  <2>6. SubSeq(s, n, l) \in Seq(T)
    BY <2>1, <2>3, SubSeqProperties
  <2> QED
    BY <2>4, <2>5, <2>6
<1>13. r = A \o (y \o B)
  <2>1. SubSeq(s, k, l) = <<s[k]>> \o SubSeq(s, k + 1, l)
    <3>1. k \in 1..Len(s) /\ l \in k..Len(s)
      BY <1>10 DEF L
    <3> QED
      BY <3>1, SubSeqRecursiveFirst
  <2>2. SubSeq(s, f, i) \o SubSeq(s, i + 1, l) = SubSeq(s, f, l)
    <3>1. f \in 1..(Len(s) + 1) /\ i \in (f - 1)..Len(s) /\ l \in i..Len(s)
      BY <1>10 DEF L
    <3> HIDE DEF i
    <3> QED
      BY <3>1, ConcatAdjacentSubSeq
  <2> QED
    BY <1>4, <1>10, <2>1, <2>2
<1> HIDE DEF r, A, B
<1>14. Lacks(A, c)
  <2> SUFFICES ASSUME NEW j \in 1..Len(A) PROVE A[j] # c
    BY DEF Lacks
  <2>1. f + j - 1 \in 1..(k - 1)
    BY <1>1, <1>9, <1>12
  <2>2. A[j] = s[f + j - 1]
    BY <1>12
  <2> QED
    BY <2>1, <2>2
<1>15. IndexOf(r, y) = Len(A)
  <2>1. y \in Seq(T) /\ Len(y) = 1 /\ y[1] = c
    BY <1>1, <1>11
  <2> HIDE DEF y
  <2>2. IsCut(T, r, A, y, B)
    BY <1>12, <1>13, <1>14, <2>1 DEF IsCut
  <2> QED
    BY <2>2, CutFinds
<1>16. Len(A) > 0 <=> f < k
  BY <1>1, <1>9, <1>12
<1>17. f < k <=> \E j \in 1..(k - 1) : ~IsBlank(s[j])
  <2>1. ASSUME f < k PROVE f \in 1..(k - 1) /\ ~IsBlank(s[f])
    BY <1>1, <1>5, <1>7, <1>9, <2>1
  <2>2. ASSUME NEW j \in 1..(k - 1), ~IsBlank(s[j]) PROVE f < k
    <3>1. j \in 1..L /\ j < k
      BY <1>1
    <3>2. f <= j
      BY <1>6, <1>7, <2>2, <3>1
    <3> QED
      BY <1>9, <3>1, <3>2
  <2> QED
    BY <2>1, <2>2
<1> QED
  BY <1>15, <1>16, <1>17 DEF r

LEMMA TrimMisses ==
  ASSUME NEW T, NEW s \in Seq(T), NEW c, Lacks(s, c)
  PROVE  ~(IndexOf(Trim(s), <<c>>) > 0)
<1> DEFINE L == Len(s)
           Solid == {j \in DOMAIN s : ~IsBlank(s[j])}
           f == Min(Solid)
           l == Max(Solid)
           y == <<c>>
           r == Trim(s)
<1>1. L \in Nat /\ DOMAIN s = 1..L
  BY LenProperties
<1>2. r \in Seq(T) /\ Lacks(r, c)
  <2>1. CASE Solid = {}
    <3>1. r = <<>>
      BY <2>1, Zenon DEF Trim
    <3> QED
      BY <3>1 DEF Lacks
  <2>2. CASE Solid # {}
    <3>1. r = SubSeq(s, f, l)
      BY <2>2, Zenon DEF Trim
    <3>2. Solid \in SUBSET Nat /\ Solid \in SUBSET (0..L) /\ \A j \in Solid : j \in 1..L
      BY <1>1
    <3> HIDE DEF Solid, L
    <3>3. f \in Solid /\ l \in Solid
      BY <1>1, <2>2, <3>2, MinFirst, MaxLast
    <3> HIDE DEF f, l
    <3>4. f \in 1..L /\ l \in 1..L
      BY <3>2, <3>3
    <3>5. f \in Int /\ l \in Int /\ \A j \in f..l : j \in 1..L
      BY <1>1, <3>4
    <3>6. \A j \in f..l : s[j] \in T
      BY <3>5, ElementOfSeq DEF L
    <3>7. /\ SubSeq(s, f, l) \in Seq(T)
          /\ Len(SubSeq(s, f, l)) = IF f <= l THEN l - f + 1 ELSE 0
          /\ \A j \in 1..(l - f + 1) : SubSeq(s, f, l)[j] = s[f + j - 1]
      BY <3>5, <3>6, SubSeqProperties
    <3> HIDE DEF r
    <3>8. ASSUME NEW j \in 1..Len(r) PROVE r[j] # c
      <4>1. j \in 1..(l - f + 1) /\ f + j - 1 \in f..l
        BY <3>1, <3>5, <3>7
      <4>2. f + j - 1 \in 1..Len(s)
        BY <3>5, <4>1 DEF L
      <4>3. r[j] = s[f + j - 1]
        BY <3>1, <3>7, <4>1
      <4> QED
        BY <4>2, <4>3 DEF Lacks
    <3> QED
      BY <3>1, <3>7, <3>8 DEF Lacks
  <2> QED
    BY <2>1, <2>2
<1> HIDE DEF r
<1>3. Len(y) = 1 /\ y[1] = c
  OBVIOUS
<1> HIDE DEF y
<1>4. Len(y) \in Nat /\ Len(y) >= 1 /\ Lacks(r, y[1])
  BY <1>2, <1>3
<1>5. Occurrences(r, y) = {}
  BY <1>2, <1>4, CutMisses
<1>6. IndexOf(r, y) = -1
  BY <1>5 DEF IndexOf
<1> QED
  BY <1>6 DEF r, y

\* Text is not blank if one of its pieces is not.
LEMMA SolidBetween ==
  ASSUME page \in Seq(Piece), NEW a \in Nat, NEW b \in Nat, b <= Len(page) + 1
  PROVE  (\E j \in 1..Len(Between(a, b)) : ~IsBlank(Between(a, b)[j])) <=>
         \E h \in (a + 1)..(b - 1) : page[h] # "blank"
<1> DEFINE s == Between(a, b)
<1>1. s \in Seq(Sym) /\ Len(page) \in Nat
  BY BetweenTyped, LenProperties
<1>2. ASSUME \A h \in (a + 1)..(b - 1) : page[h] = "blank"
      PROVE  \A j \in 1..Len(s) : IsBlank(s[j])
  <2> DEFINE S == Piece \ {"blank"}
             C == {x \in Sym : ~IsBlank(x)}
  <2>1. \A p \in Piece : p \notin S => Avoids(Symbols(p), C)
    <3> SUFFICES Avoids(Symbols("blank"), C)
      OBVIOUS
    <3> DEFINE c == <<"blank", 0>>
    <3>1. Symbols("blank") = <<c>> /\ IsBlank(c)
      BY DEF Symbols, IsBlank
    <3> HIDE DEF c
    <3> QED
      BY <3>1 DEF Avoids
  <2>2. \A h \in (a + 1)..(b - 1) : page[h] \notin S
    BY <1>2
  <2> HIDE DEF S, C
  <2>3. Avoids(Between(a, b), C)
    BY <2>1, <2>2, BetweenAvoids
  <2> HIDE DEF s
  <2>4. \A j \in 1..Len(s) : s[j] \in Sym
    BY <1>1, ElementOfSeq
  <2> QED
    BY <2>3, <2>4 DEF Avoids, C, s
<1>3. ASSUME NEW h \in (a + 1)..(b - 1), page[h] # "blank"
      PROVE  \E j \in 1..Len(s) : ~IsBlank(s[j])
  <2> DEFINE A == Between(a, h)
             B == Between(h, b)
             y == Symbols(page[h])
  <2>1. h \in Nat /\ h <= Len(page) + 1 /\ h \in 1..Len(page)
    BY <1>1
  <2>2. A \in Seq(Sym) /\ B \in Seq(Sym)
    BY <2>1, BetweenTyped
  <2>3. y \in Seq(Sym) /\ Len(y) \in {1, 2, 3} /\ y[1] = Opens(page[h])
    <3>1. page[h] \in Piece
      BY <2>1, ElementOfSeq
    <3> QED
      BY <3>1, SymbolsTyped
  <2>4. s = A \o (y \o B)
    BY BetweenSplit
  <2>5. ~IsBlank(y[1])
    BY <1>3, <2>3 DEF Opens, IsBlank
  <2> HIDE DEF A, B, y, s
  <2>6. InThree(Sym, s, A, y, B)
    BY <2>2, <2>3, <2>4, ThreeParts
  <2>7. Len(s) = Len(A) + Len(y) + Len(B) /\ \A i \in 1..Len(y) : s[Len(A) + i] = y[i]
    BY <2>6, Zenon DEF InThree
  <2>8. Len(A) \in Nat /\ Len(B) \in Nat
    BY <2>2, LenProperties
  <2> DEFINE m == Len(y)
  <2>9. m \in {1, 2, 3}
    BY <2>3
  <2>10. Len(s) = Len(A) + m + Len(B) /\ \A i \in 1..m : s[Len(A) + i] = y[i]
    BY <2>7
  <2> HIDE DEF m
  <2>11. 1 \in 1..m /\ Len(A) + 1 \in 1..Len(s)
    BY <2>8, <2>9, <2>10
  <2>12. s[Len(A) + 1] = y[1]
    BY <2>10, <2>11
  <2> QED
    BY <2>5, <2>11, <2>12
<1> QED
  BY <1>2, <1>3

DefaultFound(g, q, u) ==
  LET d == FirstIn({"default"}, g, q)
  IN  IndexOf(Trim(Between(g, q) \o u), Symbols("default")) > 0 <=>
        d < q /\ \E h \in (g + 1)..(d - 1) : page[h] # "blank"

LEMMA DefaultIn ==
  ASSUME page \in Seq(Piece), NEW g \in Nat, NEW q \in Nat, g < q, q <= Len(page) + 1,
         NEW u \in Seq(Sym), Lacks(u, Opens("default"))
  PROVE  DefaultFound(g, q, u)
<1> DEFINE d == FirstIn({"default"}, g, q)
           c == <<"default", 0>>
           y == <<c>>
           A == Between(g, d)
           B == Between(d, q)
           s == Between(g, q) \o u
<1>1. Symbols("default") = y /\ Opens("default") = c /\ ~IsBlank(c)
  BY DEF Symbols, Opens, IsBlank, LongMarkers
<1>2. d \in Nat /\ g < d /\ d <= q /\ (d # q => d < q /\ page[d] \in {"default"})
  BY FoundIn
<1>3. \A j \in (g + 1)..(d - 1) : page[j] # "default"
  BY FirstInFinds
<1>4. Len(page) \in Nat
  BY LenProperties
<1> HIDE DEF d, c
<1>5. d <= Len(page) + 1
  BY <1>2, <1>4
<1>6. Lacks(A, c) /\ A \in Seq(Sym) /\ B \in Seq(Sym) /\ Between(g, q) \in Seq(Sym)
  <2>1. Lacks(A, Opens("default"))
    BY <1>2, <1>3, <1>5, BetweenLacks
  <2>2. A \in Seq(Sym) /\ B \in Seq(Sym) /\ Between(g, q) \in Seq(Sym)
    BY <1>2, <1>5, BetweenTyped
  <2> QED
    BY <1>1, <2>1, <2>2
<1>7. s \in Seq(Sym)
  BY <1>6, ConcatProperties
<1>8. CASE d = q
  <2>1. Lacks(s, c)
    <3>1. Lacks(Between(g, q), c) /\ Lacks(u, c)
      BY <1>1, <1>6, <1>8
    <3> QED
      BY <1>6, <3>1, LacksConcat
  <2> HIDE DEF s
  <2>2. ~(IndexOf(Trim(s), y) > 0)
    BY <1>7, <2>1, TrimMisses
  <2>3. ~(d < q)
    BY <1>2, <1>8
  <2> QED
    BY <1>1, <2>2, <2>3 DEF DefaultFound, d, s
<1>9. CASE d # q
  <2>1. d < q /\ page[d] = "default" /\ d \in (g + 1)..(q - 1)
    BY <1>2, <1>9
  <2>2. Between(g, q) = A \o (y \o B)
    <3>1. Between(g, q) = A \o (Symbols(page[d]) \o B)
      BY <1>2, <2>1, BetweenSplit
    <3> QED
      BY <1>1, <2>1, <3>1
  <2>3. (\E j \in 1..Len(A) : ~IsBlank(A[j])) <=> \E h \in (g + 1)..(d - 1) : page[h] # "blank"
    BY <1>2, <1>5, SolidBetween
  <2> DEFINE D == B \o u
  <2>4. y \in Seq(Sym) /\ Len(y) = 1 /\ y[1] = c
    <3>1. d \in 1..Len(page)
      BY <1>2, <1>5, <2>1
    <3>2. "default" \in Piece
      BY <2>1, <3>1, ElementOfSeq
    <3>3. c \in Sym
      BY <3>2 DEF c, Sym, SymOf
    <3> QED
      BY <3>3
  <2> HIDE DEF A, B, y
  <2>5. D \in Seq(Sym) /\ s = A \o (y \o D)
    <3>1. y \o B \in Seq(Sym) /\ B \o u \in Seq(Sym)
      BY <1>6, <2>4, ConcatProperties
    <3>2. (A \o (y \o B)) \o u = A \o ((y \o B) \o u)
      <4>1. Three(Sym, A, y \o B, u)
        BY <1>6, <3>1 DEF Three
      <4>2. Associative(A, y \o B, u)
        BY <4>1, ThreeAssociative
      <4> QED
        BY <4>2 DEF Associative
    <3>3. (y \o B) \o u = y \o (B \o u)
      <4>1. Three(Sym, y, B, u)
        BY <1>6, <2>4 DEF Three
      <4>2. Associative(y, B, u)
        BY <4>1, ThreeAssociative
      <4> QED
        BY <4>2 DEF Associative
    <3> QED
      BY <2>2, <3>1, <3>2, <3>3
  <2> HIDE DEF D, s
  <2>6. InThree(Sym, s, A, y, D)
    BY <1>6, <2>4, <2>5, ThreeParts
  <2>7. /\ Len(s) = Len(A) + Len(y) + Len(D)
        /\ \A i \in 1..Len(A) : s[i] = A[i]
        /\ \A i \in 1..Len(y) : s[Len(A) + i] = y[i]
    BY <2>6, Zenon DEF InThree
  <2>8. Len(A) \in Nat /\ Len(D) \in Nat
    BY <1>6, <2>5, LenProperties
  <2> DEFINE k == Len(A) + 1
  <2>9. k \in 1..Len(s) /\ k - 1 = Len(A) /\ s[k] = c
    <3>1. 1 \in 1..Len(y)
      BY <2>4
    <3>2. s[Len(A) + 1] = c
      BY <2>4, <2>7, <3>1
    <3> QED
      BY <2>4, <2>7, <2>8, <3>2
  <2> HIDE DEF k
  <2>10. \A j \in 1..(k - 1) : s[j] # s[k]
    BY <1>6, <2>7, <2>9 DEF Lacks
  <2>11. ~IsBlank(s[k])
    BY <1>1, <2>9
  <2>12. IndexOf(Trim(s), <<s[k]>>) > 0 <=> \E j \in 1..(k - 1) : ~IsBlank(s[j])
    BY <1>7, <2>9, <2>10, <2>11, TrimFinds
  <2>13. IndexOf(Trim(s), y) > 0 <=> \E j \in 1..Len(A) : ~IsBlank(s[j])
    BY <2>9, <2>12 DEF y
  <2>14. IndexOf(Trim(s), y) > 0 <=> \E j \in 1..Len(A) : ~IsBlank(A[j])
    BY <2>7, <2>13
  <2>15. IndexOf(Trim(s), y) > 0 <=> \E h \in (g + 1)..(d - 1) : page[h] # "blank"
    BY <2>3, <2>14 DEF A
  <2> QED
    BY <1>1, <2>1, <2>15 DEF DefaultFound, d, s, y
<1> QED
  BY <1>8, <1>9

------------------------------------------------------------------------------
(* Portrait and name of a user.                                            *)

IsUser(url, name) == [kind |-> "user", url |-> url, name |-> Trim(name)]

LEMMA UserCut ==
  ASSUME PageIInv
  PROVE  UserIsOwn
<1> DEFINE b == Len(page) + 1
           s == Text(page)
           m == FirstIn({"meta"}, 0, b)
           e == FirstIn({"meta"}, m, b)
           g == FirstIn({"img"}, m, e)
           q == FirstIn(Quoted, g, e)
           l == FirstIn({"link"}, g, e)
           a == FirstIn({"/a"}, l, e)
           d == FirstIn({"default"}, g, q)
           IsDefault == d < q /\ \E h \in (g + 1)..(d - 1) : page[h] # "blank"
           U == Between(g, q) \o UpToQuote(page[q])
           N == Between(l, a)
           t == Between(g, e)
           ts == UNION {From(s1, Symbols("img")) : s1 \in Second(s, Symbols("meta"))}
           Users == UNION {UNION {UserOf(r, Trim(u)) : u \in UpTo(r, Symbols("quote"))} : r \in ts}
<1>1. m = First("meta")
  BY DEF First
<1>2. UserPage(s) = IF IndexOf(s, Symbols("error")) > 0 THEN {[kind |-> "missing"]} ELSE Users
  BY Zenon DEF UserPage
<1>3. IndexOf(s, Symbols("error")) > 0 <=> "error" \in ToSet(page)
  BY OnPage
<1>4. /\ page \in Seq(Piece) /\ Len(page) \in Nat /\ Between(0, b) = s
      /\ 0 \in Nat /\ b \in Nat /\ 0 < b /\ b <= Len(page) + 1
  BY WholePage
<1>5. m \in Nat /\ m <= b /\ (m > Len(page) <=> m = b)
  <2> HIDE DEF b
  <2>1. m \in Nat /\ 0 < m /\ m <= b
    BY <1>4, FoundIn
  <2> HIDE DEF m
  <2> QED
    BY <1>4, <2>1 DEF b
<1>6. Second(s, Symbols("meta")) = IF m = b THEN {} ELSE {Between(m, e)}
  <2>1. CutAtTag(0, b, "meta")
    BY <1>4, TagCut
  <2> QED
    BY <1>4, <2>1, Zenon DEF CutAtTag
<1> SUFFICES ASSUME m > Len(page) \/ (g < e /\ l < e)
             PROVE  Users = IF m > Len(page) \/ q = e THEN {}
                            ELSE IF IsDefault THEN {[kind |-> "default"]}
                            ELSE IF a = e THEN {}
                            ELSE {IsUser(Trim(U), N)}
  BY <1>1, <1>2, <1>3, Zenon DEF UserIsOwn, IsUser
<1> HIDE DEF b, m
<1>7. CASE m = b
  <2>1. Users = {}
    BY <1>6, <1>7, Zenon
  <2> QED
    BY <1>5, <1>7, <2>1
<1>8. CASE m # b
  <2>1. m < b /\ ~(m > Len(page)) /\ g < e /\ l < e
    BY <1>4, <1>5, <1>8
  <2>2. e \in Nat /\ m < e /\ e <= b /\ e <= Len(page) + 1
    <3>1. e \in Nat /\ m < e /\ e <= b
      BY <1>4, <1>5, <2>1, FoundIn
    <3> HIDE DEF e
    <3> QED
      BY <1>4, <3>1
  <2> HIDE DEF e
  <2>3. g \in Nat /\ m < g /\ g # e
    <3>1. g \in Nat /\ m < g
      BY <1>5, <2>2, FoundIn
    <3> HIDE DEF g
    <3> QED
      BY <2>1, <2>2, <3>1
  <2>4. ts = {t}
    <3>1. CutAtTag(m, e, "img")
      BY <1>4, <1>5, <2>2, TagCut
    <3>2. From(Between(m, e), Symbols("img")) = {t}
      BY <2>3, <3>1, Zenon DEF CutAtTag
    <3>3. Second(s, Symbols("meta")) = {Between(m, e)}
      BY <1>6, <1>8
    <3> HIDE DEF t, g
    <3>4. ts = UNION {From(s1, Symbols("img")) : s1 \in {Between(m, e)}}
      BY <3>3, Zenon
    <3>5. UNION {From(s1, Symbols("img")) : s1 \in {Between(m, e)}} =
            From(Between(m, e), Symbols("img"))
      BY Zenon
    <3> QED
      BY <3>2, <3>4, <3>5
  <2> HIDE DEF g
  <2>5. UpTo(t, Symbols("quote")) = IF q = e THEN {} ELSE {U}
    <3>1. CutAtQuote(g, e)
      BY <1>4, <2>1, <2>2, <2>3, QuoteCut
    <3> QED
      BY <3>1, Zenon DEF CutAtQuote
  <2>6. q \in Nat /\ g < q /\ q <= e /\ (q # e => q < e /\ page[q] \in Quoted)
    BY <2>1, <2>2, <2>3, FoundIn
  <2>7. From(t, Symbols("link")) = {Between(l, e)}
    <3>1. CutAtTag(g, e, "link")
      BY <1>4, <2>1, <2>2, <2>3, TagCut
    <3>2. l # e
      <4>1. l \in Nat
        BY <2>1, <2>2, <2>3, FoundIn
      <4> HIDE DEF l
      <4> QED
        BY <2>1, <2>2, <4>1
    <3> QED
      BY <3>1, <3>2, Zenon DEF CutAtTag
  <2>8. UpTo(Between(l, e), Symbols("/a")) = IF a = e THEN {} ELSE {N}
    <3>1. l \in Nat
      BY <2>1, <2>2, <2>3, FoundIn
    <3> HIDE DEF l
    <3>2. CutAtTag(l, e, "/a")
      BY <1>4, <2>1, <2>2, <3>1, TagCut
    <3> QED
      BY <3>2, Zenon DEF CutAtTag
  <2> HIDE DEF ts
  <2>9. Users = UNION {UserOf(t, Trim(u)) : u \in UpTo(t, Symbols("quote"))}
    <3> DEFINE Of(r) == UNION {UserOf(r, Trim(u)) : u \in UpTo(r, Symbols("quote"))}
    <3> HIDE DEF t
    <3>1. Users = UNION {Of(r) : r \in {t}}
      BY <2>4, Zenon
    <3> HIDE DEF Of
    <3>2. UNION {Of(r) : r \in {t}} = Of(t)
      BY Zenon
    <3> QED
      BY <3>1, <3>2 DEF Of
  <2>10. CASE q = e
    <3>1. UpTo(t, Symbols("quote")) = {}
      BY <2>5, <2>10
    <3>2. Users = {}
      BY <2>9, <3>1, Zenon
    <3> QED
      BY <2>10, <3>2
  <2>11. CASE q # e
    <3> HIDE DEF q
    <3>1. q < e /\ q \in 1..Len(page) /\ page[q] \in Quoted
      <4>1. q \in Nat /\ g < q /\ q < e
        BY <2>6, <2>11
      <4>2. q \in 1..Len(page)
        BY <1>4, <2>2, <2>3, <4>1
      <4> QED
        BY <2>6, <2>11, <4>1, <4>2
    <3> DEFINE v == UpToQuote(page[q])
    <3>2. v \in Seq(Sym) /\ Lacks(v, Opens("default"))
      <4>1. page[q] \in Piece
        BY <1>4, <3>1, ElementOfSeq
      <4>2. HoldsQuote(page[q])
        BY <3>1, <4>1, QuotedHold
      <4>3. v \in Seq(Sym)
        BY <4>2 DEF HoldsQuote
      <4>4. Lacks(v, Opens("default"))
        BY DEF Lacks, UpToQuote, Opens, LongMarkers
      <4> QED
        BY <4>3, <4>4
    <3>3. IndexOf(Trim(U), Symbols("default")) > 0 <=> IsDefault
      <4> HIDE DEF v
      <4>1. q <= Len(page) + 1
        BY <1>4, <3>1
      <4>2. DefaultFound(g, q, v)
        BY <1>4, <2>3, <2>6, <3>2, <4>1, DefaultIn
      <4> QED
        BY <4>2, Zenon DEF DefaultFound, v
    <3>4. Users = UserOf(t, Trim(U))
      <4>1. UpTo(t, Symbols("quote")) = {U}
        BY <2>5, <2>11
      <4> HIDE DEF U, t
      <4>2. Users = UNION {UserOf(t, Trim(u)) : u \in {U}}
        BY <2>9, <4>1, Zenon
      <4> QED
        BY <4>2, Zenon
    <3> HIDE DEF U, t, Users, IsDefault
    <3>5. UserOf(t, Trim(U)) = IF IsDefault THEN {[kind |-> "default"]}
             ELSE {IsUser(Trim(U), n) : n \in UNION {UpTo(r, Symbols("/a")) :
                                                       r \in From(t, Symbols("link"))}}
      BY <3>3, Zenon DEF UserOf, IsUser
    <3>6. UNION {UpTo(r, Symbols("/a")) : r \in From(t, Symbols("link"))} =
            IF a = e THEN {} ELSE {N}
      <4> HIDE DEF a, l, N
      <4>1. UNION {UpTo(r, Symbols("/a")) : r \in From(t, Symbols("link"))} =
              UNION {UpTo(r, Symbols("/a")) : r \in {Between(l, e)}}
        BY <2>7, Zenon
      <4>2. UNION {UpTo(r, Symbols("/a")) : r \in {Between(l, e)}} =
              UpTo(Between(l, e), Symbols("/a"))
        BY Zenon
      <4> QED
        BY <2>8, <4>1, <4>2
    <3> HIDE DEF a, N
    <3>7. {IsUser(Trim(U), n) : n \in IF a = e THEN {} ELSE {N}} =
            IF a = e THEN {} ELSE {IsUser(Trim(U), N)}
      <4>1. CASE a = e
        BY <4>1, Zenon
      <4>2. CASE a # e
        BY <4>2, Zenon
      <4> QED
        BY <4>1, <4>2
    <3> QED
      BY <2>1, <2>11, <3>4, <3>5, <3>6, <3>7, Zenon
  <2> QED
    BY <2>10, <2>11
<1> QED
  BY <1>7, <1>8

\* On every page on which the portrait and the link of the user open where they
\* should, whatever else it lacks and however long it is, portrait and name are
\* those of the user, or the page fails (userFetch).
THEOREM PortraitAndName == Spec => []UserIsOwn
<1>1. Spec => []PageIInv
  BY PageInit, PageStep, PTL DEF Spec
<1>2. PageIInv => UserIsOwn
  BY UserCut
<1> QED
  BY <1>1, <1>2, PTL

===============================================================================
