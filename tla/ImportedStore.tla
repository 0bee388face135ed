---------------------------- MODULE ImportedStore ----------------------------
(***************************************************************************)
(* What the import of duanzi ("dz", short posts) promises about the        *)
(* tables of the JAX server, whatever fails on the way: a dz is never      *)
(* taken back, a comment is stored once, under the dz it was written for   *)
(* and only after that dz is stored, or under no dz at all, and a stored   *)
(* comment is never moved, changed or stored again.                        *)
(*                                                                         *)
(* NHDZFetcher is shown to implement this specification.                   *)
(***************************************************************************)
CONSTANTS
  DZs,       \* the dz of the source site
  Comments,  \* the comments of the source site, by their id there
  Owner,     \* Owner[c] is the dz comment c was written for
  NoDz       \* dz id 0: no dz

VARIABLES
  dzRows,      \* the dz JAX has a row for
  commentRows  \* the comment rows of JAX

vars == <<dzRows, commentRows>>

CommentRow == [comment : Comments, parent : DZs \cup {NoDz}, top : BOOLEAN]

Init == dzRows = {} /\ commentRows = {}

StoreDz(d) ==
  /\ d \notin dzRows
  /\ dzRows' = dzRows \cup {d}
  /\ UNCHANGED commentRows

StoreComment(row) ==
  /\ \A r \in commentRows : r.comment # row.comment
  /\ \/ row.parent = NoDz
     \/ row.parent = Owner[row.comment] /\ row.parent \in dzRows
  /\ commentRows' = commentRows \cup {row}
  /\ UNCHANGED dzRows

Next ==
  \/ \E d \in DZs : StoreDz(d)
  \/ \E row \in CommentRow : StoreComment(row)

Spec == Init /\ [][Next]_vars
=============================================================================
