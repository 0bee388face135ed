------------------------------ MODULE PageCut ------------------------------
(***************************************************************************)
(* How NHDZFetcher, FetchService and QSBKFetcher cut what they need out of *)
(* an HTML page: indexOf, substring and Splitter, one after the other.  What they  *)
(* do is checked against what lies between which tags, on every page built *)
(* of a few pieces, the ill-formed ones included: indexOf answers -1 where *)
(* a marker is missing, and -1 plus the marker's length is a position.     *)
(*                                                                         *)
(* A marker the code adds the length of is two symbols or more, every      *)
(* other piece is one.  A cut is the set of its result: {} if it throws.   *)
(***************************************************************************)
EXTENDS Integers, SequencesExt

CONSTANTS
  Times,     \* Times[t][p]: bound: how often piece p is on a page of kind t
  Start,     \* Start[t]: bound: the pieces a page of kind t starts with
  MaxPieces, \* MaxPieces[t]: bound: pieces of a page of kind t
  LogLen     \* characters the code logs of the id list (200)

ASSUME TimesAssumption ==
  /\ \A t \in DOMAIN Times : Times[t] \in [DOMAIN Times[t] -> Nat]
  /\ MaxPieces \in [DOMAIN Times -> Nat] /\ DOMAIN Start = DOMAIN Times
\* A piece has a name, and no page starts with a tag the code searches for.
ASSUME PiecesAssumption ==
  \A t \in DOMAIN Times :
    /\ DOMAIN Times[t] \subseteq STRING
    /\ Start[t] \in Seq(STRING) /\ Start[t] # <<>> /\ Start[t][1] = "x"
ASSUME LogAssumption == LogLen \in Nat

VARIABLES
  kind,  \* the home page, that of a dz, that of a user, or one of articles (QSBK)
  page   \* the pieces of the page, in order

\* What the code adds the length of.
LongMarkers == {"list", "sep", "end", "h1", "meta", "img", "link", "alt", "content"}

\* A quote is searched, and some of the markers hold quotes themselves.
Symbols(p) ==
  CASE p \in {"img", "alt"} -> <<<<p, 1>>, <<"quote", 0>>>>
    [] p \in {"link", "content"} -> <<<<p, 1>>, <<"quote", 0>>, <<p, 2>>>>
    [] p \in {"list", "sep", "end", "h1", "meta"} -> <<<<p, 1>>, <<p, 2>>>>
    [] OTHER -> <<<<p, 0>>>>

Text(ps) == FlattenSeq([k \in DOMAIN ps |-> Symbols(ps[k])])

------------------------------------------------------------------------------
(* java.lang.String and Splitter, with the positions of Java.              *)

Occurrences(s, m) == {k \in 0..(Len(s) - Len(m)) : SubSeq(s, k + 1, k + Len(m)) = m}

IndexOf(s, m) == IF Occurrences(s, m) = {} THEN -1 ELSE Min(Occurrences(s, m))

Substring(s, a, b) ==
  IF 0 <= a /\ a <= b /\ b <= Len(s) THEN {SubSeq(s, a + 1, b)} ELSE {}

IsBlank(c) == c[1] = "blank"

Trim(s) ==
  LET Solid == {k \in DOMAIN s : ~IsBlank(s[k])}
  IN  IF Solid = {} THEN <<>> ELSE SubSeq(s, Min(Solid), Max(Solid))

\* iter.next(): up to the next separator, or all that is left.
Part(s, m) == IF Occurrences(s, m) = {} THEN s ELSE SubSeq(s, 1, IndexOf(s, m))

\* All of them: parts[n] are those of the last n characters.
Split(s, m) ==
  LET parts[n \in 0..Len(s)] ==
        LET rest == SubSeq(s, Len(s) - n + 1, Len(s))
        IN  IF Occurrences(rest, m) = {} THEN <<rest>>
            ELSE <<Part(rest, m)>> \o parts[n - (IndexOf(rest, m) + Len(m))]
  IN  parts[Len(s)]

\* iter.next(); iter.next()
Second(s, m) ==
  IF Occurrences(s, m) = {} THEN {}
  ELSE {Part(SubSeq(s, IndexOf(s, m) + Len(m) + 1, Len(s)), m)}

\* Mutant: the length of the marker is forgotten.
FromMarker(s, m) == Substring(s, IndexOf(s, m), Len(s))

\* s.substring(s.indexOf(m) + m.length())
From(s, m) == Substring(s, IndexOf(s, m) + Len(m), Len(s))

\* s.substring(0, s.indexOf(m))
UpTo(s, m) == Substring(s, 0, IndexOf(s, m))

------------------------------------------------------------------------------
(* getAndParseDZId, parsePerDZ, userFetch.                                 *)

\* Mutant: substring starts at the bracket of the list.
IdListWithBracket(s) ==
  LET tails == Substring(s, IndexOf(s, <<<<"list", 1>>>>) + 1, Len(s))
  IN  {Split(ids, Symbols("sep")) :
         ids \in UNION {UpTo(t, Symbols("end")) :
                          t \in {t \in tails : Substring(t, 0, LogLen) # {}}}}

\* The ids of the home page.  "list" is the name that is searched and the
\* bracket after it, which the constant 21 skips as well; the log statement in
\* between throws on a short page.
IdList(s) ==
  LET tails == Substring(s, IndexOf(s, <<<<"list", 1>>>>) + 2, Len(s))
  IN  {Split(ids, Symbols("sep")) :
         ids \in UNION {UpTo(t, Symbols("end")) :
                          t \in {t \in tails : Substring(t, 0, LogLen) # {}}}}

NoP(c) == c[1] # "p"

\* Mutant: the title is not cut at its closing tag.
DzPageToEnd(s) ==
  IF IndexOf(s, Symbols("gone")) > 0 THEN {[kind |-> "gone"]}
  ELSE {[kind |-> "dz", content |-> SelectSeq(Trim(t), NoP)] : t \in Second(s, Symbols("h1"))}

\* The page of a dz: its content is its title without paragraph tags.
DzPage(s) ==
  IF IndexOf(s, Symbols("gone")) > 0 THEN {[kind |-> "gone"]}
  ELSE {[kind |-> "dz", content |-> SelectSeq(Trim(Part(t, Symbols("/h1"))), NoP)] :
          t \in Second(s, Symbols("h1"))}

\* The name is searched from the portrait on, t, not from behind its url.
UserOf(t, url) ==
  IF IndexOf(url, Symbols("default")) > 0 THEN {[kind |-> "default"]}
  ELSE {[kind |-> "user", url |-> url, name |-> Trim(n)] :
          n \in UNION {UpTo(r, Symbols("/a")) : r \in From(t, Symbols("link"))}}

\* The page of a user: "link" holds the id of that user.
UserPage(s) ==
  IF IndexOf(s, Symbols("error")) > 0 THEN {[kind |-> "missing"]}
  ELSE UNION {UNION {UserOf(t, Trim(u)) : u \in UpTo(t, Symbols("quote"))} :
                t \in UNION {From(s1, Symbols("img")) : s1 \in Second(s, Symbols("meta"))}}

------------------------------------------------------------------------------
(* loadInfo of QSBKFetcher.                                                *)

\* s.substring(s.indexOf(m))
Behind(s, m) == Substring(s, IndexOf(s, m), Len(s))

\* What follows on the value of an attribute, from the quote that ends it.
PastValue(s, m) == UNION {Behind(r, Symbols("quote")) : r \in From(s, m)}

\* new Long does not throw.
IsNumber(s) == s # <<>> /\ \A k \in DOMAIN s : s[k] = <<"x", 0>>

\* Mutant: the content is searched from the id on.
ArticleContentFirst(s) ==
  LET contents == UNION {UNION {UpTo(c, Symbols("/div")) : c \in From(r, Symbols("content"))} :
                           r \in Behind(s, Symbols("apos"))}
  IN  {[id |-> n, content |-> Trim(c)] :
         n \in {n \in UpTo(s, Symbols("apos")) : IsNumber(n)}, c \in contents}

\* The dz of an article: behind the id come the portrait, the name and the
\* content, each searched from where the one before it ends.
Article(s) ==
  LET thumbs == UNION {PastValue(r, Symbols("img")) : r \in Behind(s, Symbols("apos"))}
      names == UNION {PastValue(r, Symbols("alt")) : r \in thumbs}
      contents == UNION {UNION {UpTo(c, Symbols("/div")) : c \in From(r, Symbols("content"))} :
                           r \in names}
  IN  {[id |-> n, content |-> Trim(c)] :
         n \in {n \in UpTo(s, Symbols("apos")) : IsNumber(n)}, c \in contents}

\* What a page adds to dzList, which keeps it if a later article throws.
LoadInfo(s) ==
  LET articles == Tail(Split(s, Symbols("article")))
      Bad == {k \in DOMAIN articles : Article(articles[k]) = {}}
      n == IF Bad = {} THEN Len(articles) ELSE Min(Bad) - 1
  IN  [dzs |-> [k \in 1..n |-> CHOOSE d \in Article(articles[k]) : TRUE],
       throws |-> Bad # {}]

------------------------------------------------------------------------------
(* Every page that starts as given and is made of the given pieces.        *)

Count(p) == Cardinality({k \in DOMAIN page : page[k] = p})

Init == kind \in DOMAIN Times /\ page = Start[kind]

Next ==
  \E p \in DOMAIN Times[kind] :
    /\ Len(page) < MaxPieces[kind] /\ Count(p) < Times[kind][p]
    /\ page' = Append(page, p)
    /\ UNCHANGED kind

Spec == Init /\ [][Next]_<<kind, page>>

------------------------------------------------------------------------------
(* What lies between which tags.                                           *)

\* The first piece of S behind position a and before b, or b.
FirstIn(S, a, b) ==
  LET Found == {k \in (a + 1)..(b - 1) : page[k] \in S}
  IN  IF Found = {} THEN b ELSE Min(Found)

First(p) == FirstIn({p}, 0, Len(page) + 1)

Between(a, b) == Text(SubSeq(page, a + 1, b - 1))

\* The pieces that hold a quote, and what of them is in front of it.
Quoted == {"quote", "img", "alt", "link", "content"}
UpToQuote(p) == IF p = "quote" THEN <<>> ELSE <<<<p, 1>>>>

\* If the home page has an id list, the ids are what lies between its brackets,
\* cut at the commas, and none of it is lost or added; it fails if the list is
\* not closed, and for the sake of a log line if little follows on it.
IdsAreListed ==
  LET a == First("list")
      e == FirstIn({"end"}, a, Len(page) + 1)
      Joined(ids) == FlattenSeq([k \in DOMAIN ids |->
                       IF k = 1 THEN ids[k] ELSE Symbols("sep") \o ids[k]])
      Short == Len(Between(a, Len(page) + 1)) < LogLen
  IN  kind = "home" /\ a <= Len(page) =>
        /\ IdList(Text(page)) = {} <=> (e > Len(page) \/ Short)
        /\ \A ids \in IdList(Text(page)) :
             /\ Joined(ids) = Between(a, e)
             /\ \A k \in DOMAIN ids : Occurrences(ids[k], Symbols("sep")) = {}

\* On every page of a dz, whatever tags it lacks: the dz is skipped only if its page says
\* that it is gone, its content is what the first title holds, up to where that
\* ends or the page does, and a page without a title is not taken for a dz.
ContentIsTitle ==
  LET a == First("h1")
      e == FirstIn({"h1", "/h1"}, a, Len(page) + 1)
  IN  kind = "dz" => DzPage(Text(page)) =
        IF "gone" \in ToSet(page) THEN {[kind |-> "gone"]}
        ELSE IF a > Len(page) THEN {}
        ELSE {[kind |-> "dz", content |-> SelectSeq(Trim(Between(a, e)), NoP)]}

\* Portrait and name are those of the user, or the page fails, for every page
\* on which the portrait and the link of the user open where they should: these
\* are the two markers the code cannot do without and does not miss.  A url that
\* is not closed goes on to the next quote, which may be one in another tag.
UserIsOwn ==
  LET m == First("meta")
      e == FirstIn({"meta"}, m, Len(page) + 1)
      g == FirstIn({"img"}, m, e)
      q == FirstIn(Quoted, g, e)
      l == FirstIn({"link"}, g, e)
      a == FirstIn({"/a"}, l, e)
      d == FirstIn({"default"}, g, q)
      IsDefault == d < q /\ \E h \in (g + 1)..(d - 1) : page[h] # "blank"
  IN  kind = "user" /\ (m > Len(page) \/ (g < e /\ l < e)) =>
        UserPage(Text(page)) =
          IF "error" \in ToSet(page) THEN {[kind |-> "missing"]}
          ELSE IF m > Len(page) \/ q = e THEN {}
          ELSE IF IsDefault THEN {[kind |-> "default"]}
          ELSE IF a = e THEN {}
          ELSE {[kind |-> "user", url |-> Trim(Between(g, q) \o UpToQuote(page[q])),
                 name |-> Trim(Between(l, a))]}

\* Where the articles are, in order, and behind the last of them the page's end.
ArticleAt[k \in 0..(Len(page) + 1)] ==
  IF k = 0 THEN 0 ELSE FirstIn({"article"}, ArticleAt[k - 1], Len(page) + 1)

\* Where the article at a has what is cut out of it; its end if it has not.
ArticleEnd(a) == FirstIn({"article"}, a, Len(page) + 1)
IdEnd(a) == FirstIn({"apos"}, a, ArticleEnd(a))
Thumb(a) == FirstIn({"img"}, IdEnd(a), ArticleEnd(a))
ThumbEnd(a) == FirstIn(Quoted, Thumb(a), ArticleEnd(a))
Name(a) == FirstIn({"alt"}, ThumbEnd(a), ArticleEnd(a))
NameEnd(a) == FirstIn(Quoted, Name(a), ArticleEnd(a))
Content(a) == FirstIn({"content"}, NameEnd(a), ArticleEnd(a))
ContentEnd(a) == FirstIn({"/div"}, Content(a), ArticleEnd(a))

\* It has the three markers whose absence the code does not notice.
Noticed(a) ==
  /\ IdEnd(a) < ArticleEnd(a) => Thumb(a) < ArticleEnd(a)
  /\ ThumbEnd(a) < ArticleEnd(a) => Name(a) < ArticleEnd(a)
  /\ NameEnd(a) < ArticleEnd(a) => Content(a) < ArticleEnd(a)

Sound(a) == ContentEnd(a) < ArticleEnd(a) /\ IsNumber(Between(a, IdEnd(a)))

\* On a page of articles, what goes into dzList is what the articles hold, each
\* with the id and the content of its own, up to the first that cannot be cut,
\* whose exception ends the page; for articles that lack none of the three
\* markers that are not tested for.
ArticlesAreOwn ==
  LET got == LoadInfo(Text(page))
      stop == ArticleAt[Len(got.dzs) + 1]
  IN  kind = "qsbk" /\ (\A k \in DOMAIN page : page[k] = "article" => Noticed(k)) =>
        /\ IF got.throws THEN stop <= Len(page) /\ ~Sound(stop) ELSE stop = Len(page) + 1
        /\ \A k \in DOMAIN got.dzs :
             LET a == ArticleAt[k]
             IN  /\ Sound(a)
                 /\ got.dzs[k] = [id |-> Between(a, IdEnd(a)),
                                  content |-> Trim(Between(Content(a), ContentEnd(a)))]
=============================================================================
