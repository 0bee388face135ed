--------------------------- MODULE MCNHDZFetcher ---------------------------
(* Instances of NHDZFetcher for TLC: what the site shows. *)
EXTENDS NHDZFetcher, TLC

CONSTANTS f1, f2, d1, d2, d3, gone, broken, c1, c2, c3

\* Two dz; a comment of d1 is both a recent and a top one.
MCOwner == (c1 :> d1) @@ (c2 :> d1) @@ (c3 :> d2)
MCPages ==
  (d1 :> {[recent |-> <<c1, c2>>, top |-> <<c1>>]})
  @@ (d2 :> {[recent |-> <<>>, top |-> <<c3>>]})

\* Beside them a dz that is gone, one whose page never parses, and one that is
\* only ever listed together with that.
SitePages ==
  MCPages @@ (d3 :> {[recent |-> <<>>, top |-> <<>>]}) @@ (gone :> {}) @@ (broken :> {})
SiteListings == {<<d1, gone, d2>>, <<d3, broken>>, <<gone, d2>>}

\* One comment each.
TinyOwner == (c1 :> d1) @@ (c2 :> d2)
TinyPages ==
  (d1 :> {[recent |-> <<c1>>, top |-> <<>>]})
  @@ (d2 :> {[recent |-> <<>>, top |-> <<c2>>]})
TinyListings == {<<d1, d2>>}

Symm == Permutations(Fetchers)
=============================================================================
