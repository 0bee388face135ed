---------------------------- MODULE MCUserFetch ----------------------------
(* Instances of UserFetch for TLC: 3-bit ints and what their pages show. *)
EXTENDS UserFetch, TLC

Shown(n) ==
  CASE n = 0 -> "user"
    [] n = 2 -> "noTag"
    [] n = 1 -> "missing"
    [] n = -1 -> "default"
    [] OTHER -> "broken"

MCPage == [n \in Ints |-> Shown(n)]

Params(a) == [act |-> "fetch.userFetch", uid |-> "absent", args |-> a]
Query(start, end) == [param |-> Params([start |-> start, end |-> end]), parts |-> <<>>]

\* A form over the parameters, whose later field counts, on the first half of the
\* same ids; one with a uid that is no int, before it is replaced.
Form == [
  param |-> Params([start |-> 2, end |-> 0]),
  parts |-> <<[field |-> "args", value |-> [start |-> 0, end |-> 2]],
              [field |-> "other", value |-> "x"],
              [field |-> "args", value |-> [start |-> 2, end |-> 2]]>>]
BadForm == [
  param |-> [Params(None) EXCEPT !.uid = "bad"],
  parts |-> <<[field |-> "uid", value |-> "int"],
              [field |-> "args", value |-> [start |-> 0, end |-> 2]]>>]

\* From the same ids, overlapping, and empty.
MCAsks == {Query(0, 2), Query(2, 0), Form, BadForm}

\* Up to the largest int, and across zero with more users than ints count.
EdgeShown(n) ==
  CASE n \in {-2, -1, 0} -> "user"
    [] n = 2 -> "noLink"
    [] n = 3 -> "noTag"
    [] OTHER -> "missing"
EdgePage == [n \in Ints |-> EdgeShown(n)]
EdgeAsks == {Query(2, MaxInt), Query(-2, 2), Form, BadForm}

Symm == Permutations(Requests)
=============================================================================
