----------------------------- MODULE NHDZFetcher -----------------------------
(***************************************************************************)
(* The import loop of fiora: FetchTask runs NHDZFetcher.fetch for ever.    *)
(* One pass lists the dz of the source site, reads and parses the page and *)
(* the comments of each, and only then saves them, one HTTP call after the *)
(* other, in the JAX server.                                               *)
(*                                                                         *)
(* A fetcher is the fetch thread of one JVM.  The source site and JAX are  *)
(* outside the repository: they are modelled from how the code calls them. *)
(* JAX names a dz by an id of its own; the model names the id after the dz *)
(* it was given out for, and NoDz is the 0 the code starts from.           *)
(***************************************************************************)
EXTENDS Naturals, FiniteSets, Sequences, SequencesExt

CONSTANTS
  Fetchers,        \* fetch threads, one per running or restarted JVM
  DZs,             \* the dz of the source site
  Comments,        \* its comments, by their id on the site
  Owner,           \* Owner[c] is the dz comment c was written for
  Listings,        \* the id lists the home page may show
  CommentPages,    \* CommentPages[d]: the answers of the comment API for d
  Gone,            \* dz whose page is "the page you visit does not exist"
  Broken,          \* dz whose page or comments the parser always fails on
  NoDz,            \* dz id 0
  ExistingIsError, \* whether JAX answers a dz it has with an error code
  MaxLate          \* bound: requests without an answer still on their way

OwnComments(d) == {c \in Comments : Owner[c] = d}

ASSUME SiteAssumption ==
  /\ Owner \in [Comments -> DZs]
  /\ Listings \subseteq Seq(DZs)
  /\ \A d \in DZs : CommentPages[d] \subseteq
       [recent : Seq(OwnComments(d)), top : Seq(OwnComments(d))]

ASSUME NoDzAssumption == NoDz \notin DZs

ASSUME JaxAssumption == ExistingIsError \in BOOLEAN /\ MaxLate \in Nat

VARIABLES
  \* the fetch threads
  pc,       \* what the thread does next
  listing,  \* ids of the pass (idIter)
  dzList,   \* records parsed so far (dzList)
  i,        \* position in the outer loop: over listing, then over dzList
  j,        \* position in the comment loop
  dzId,     \* the id addDZ returned for the current record
  \* JAX
  dzRows,       \* the dz it stores
  commentRows,  \* the comment rows it stores
  lateDz,       \* dz in requests whose caller is gone, not yet processed
  lateComments, \* rows in such requests
  refused,      \* history: dz answered without an id, comments answered
                \* without being stored
  \* the network, the site and the operator
  healthy       \* from now on nothing fails

localVars == <<listing, dzList, i, j, dzId>>
jaxVars == <<dzRows, commentRows, lateDz, lateComments, refused>>
vars == <<pc, localVars, jaxVars, healthy>>

CommentRow == [comment : Comments, parent : DZs \cup {NoDz}, top : BOOLEAN]
Record == [dz : DZs, recent : Seq(Comments), top : Seq(Comments)]

GetPCs == {"list", "page", "comments"}
SavePCs == {"addDZ", "retry", "recent", "top"}
PCs == GetPCs \cup SavePCs \cup {"sleep", "stuck", "ended", "error", "down"}

Init ==
  /\ pc = [f \in Fetchers |-> "down"]
  /\ listing = [f \in Fetchers |-> <<>>]
  /\ dzList = [f \in Fetchers |-> <<>>]
  /\ i = [f \in Fetchers |-> 1]
  /\ j = [f \in Fetchers |-> 1]
  /\ dzId = [f \in Fetchers |-> NoDz]
  /\ dzRows = {}
  /\ commentRows = {}
  /\ lateDz = {}
  /\ lateComments = {}
  /\ refused = {}
  /\ healthy = FALSE

------------------------------------------------------------------------------
(* The thread between two calls.                                           *)

Goto(f, label) == pc' = [pc EXCEPT ![f] = label]

\* The locals of fetch go out of scope, by return or by exception.
DropLocals(f) ==
  /\ listing' = [listing EXCEPT ![f] = <<>>]
  /\ dzList' = [dzList EXCEPT ![f] = <<>>]
  /\ i' = [i EXCEPT ![f] = 1]
  /\ j' = [j EXCEPT ![f] = 1]
  /\ dzId' = [dzId EXCEPT ![f] = NoDz]

\* fetch is over, and run sleeps.
EndPass(f) == Goto(f, "sleep") /\ DropLocals(f)

\* What fetch may throw: an HTTP call that fails, and whatever parsing throws.
Exceptions == {"FioraException", "RuntimeException"}

\* Mutant: the catch of run names the one class that fetch declares.
CaughtFioraOnly == {"FioraException"}

\* The catch of run names Exception, of which both are subclasses.
Caught == Exceptions

\* fetch throws e: if run catches it, the loop goes on as if fetch had returned;
\* if not, the thread is over while its JVM lives.
Throw(f, e) ==
  IF e \in Caught THEN EndPass(f) ELSE Goto(f, "ended") /\ DropLocals(f)

CurrentDz(f) == dzList[f][i[f]].dz

\* Mutant: the second comment loop runs over the list of the first.
CurrentCommentsRecentOnly(f) == dzList[f][i[f]].recent

\* The comment list the save loop is in: the recent ones first, then the top.
CurrentComments(f) ==
  IF pc[f] = "recent" THEN dzList[f][i[f]].recent ELSE dzList[f][i[f]].top

\* Mutant: the id the site has for the dz is sent instead of JAX's own.
CurrentRowOfSourceDzId(f) ==
  [comment |-> CurrentComments(f)[j[f]], parent |-> CurrentDz(f),
   top |-> pc[f] = "top"]

CurrentRow(f) ==
  [comment |-> CurrentComments(f)[j[f]], parent |-> dzId[f],
   top |-> pc[f] = "top"]

AtListEnd(f) == pc[f] = "page" /\ i[f] > Len(listing[f])
AtSaveEnd(f) == pc[f] = "addDZ" /\ i[f] > Len(dzList[f])
PostsDz(f) == pc[f] \in {"addDZ", "retry"} /\ ~AtSaveEnd(f)
PostsComment(f) ==
  pc[f] \in {"recent", "top"} /\ j[f] <= Len(CurrentComments(f))

\* The thread waits for the answer to an HTTP call.
InCall(f) ==
  \/ pc[f] \in GetPCs /\ ~AtListEnd(f)
  \/ PostsDz(f)
  \/ PostsComment(f)

------------------------------------------------------------------------------
(* JAX.                                                                    *)

Stored(c) == \E r \in commentRows : r.comment = c

RoomForLate == Cardinality(lateDz) + Cardinality(lateComments) < MaxLate

\* {"id": n}: the dz is stored, now or before.
JaxGivesId(d) ==
  /\ ~(ExistingIsError /\ d \in dzRows)
  /\ dzRows' = dzRows \cup {d}
  /\ UNCHANGED <<commentRows, lateDz, lateComments, refused>>

\* {"code": n}, n # 0: an ErrorResponseException, and nothing is stored.
JaxGivesCode(d) ==
  /\ ~healthy \/ (ExistingIsError /\ d \in dzRows)
  /\ refused' = refused \cup {d}
  /\ UNCHANGED <<dzRows, commentRows, lateDz, lateComments>>

\* A JSON object with neither code nor id: the response class leaves id 0.
JaxGivesNoId(d) ==
  /\ ~healthy
  /\ dzRows' \in {dzRows, dzRows \cup {d}}
  /\ refused' = refused \cup {d}
  /\ UNCHANGED <<commentRows, lateDz, lateComments>>

\* A comment is stored once, under its id on the site (error code 2001).
JaxTakesComment(row) ==
  /\ commentRows' = IF Stored(row.comment) THEN commentRows
                                           ELSE commentRows \cup {row}
  /\ UNCHANGED <<dzRows, lateDz, lateComments, refused>>

\* Any other answer to a comment that is not an exception of the transport.
JaxRefusesComment(c) ==
  /\ ~healthy
  /\ refused' = refused \cup {c}
  /\ UNCHANGED <<dzRows, commentRows, lateDz, lateComments>>

\* The caller gets no usable answer: the request never reaches JAX, or JAX
\* processes it some time later, when the caller has gone on.
NoAnswer(f) ==
  /\ ~healthy
  /\ UNCHANGED <<dzRows, commentRows, refused>>
  /\ \/ UNCHANGED <<lateDz, lateComments>>
     \/ /\ PostsDz(f) /\ RoomForLate
        /\ lateDz' = lateDz \cup {CurrentDz(f)}
        /\ UNCHANGED lateComments
     \/ /\ PostsComment(f) /\ RoomForLate
        /\ lateComments' = lateComments \cup {CurrentRow(f)}
        /\ UNCHANGED lateDz

LateDzArrives ==
  \E d \in lateDz :
    /\ lateDz' = lateDz \ {d}
    /\ dzRows' = dzRows \cup {d}
    /\ UNCHANGED <<pc, localVars, commentRows, lateComments, refused, healthy>>

LateCommentArrives ==
  \E row \in lateComments :
    /\ lateComments' = lateComments \ {row}
    /\ commentRows' = IF Stored(row.comment) THEN commentRows
                                             ELSE commentRows \cup {row}
    /\ UNCHANGED <<pc, localVars, dzRows, lateDz, refused, healthy>>

------------------------------------------------------------------------------
(* getAndParseDZId and parsePerDZ: everything is read before anything is   *)
(* saved.                                                                  *)

FetchList(f) ==
  /\ pc[f] = "list"
  /\ \E l \in Listings : listing' = [listing EXCEPT ![f] = l]
  /\ Goto(f, "page")
  /\ UNCHANGED <<dzList, i, j, dzId, jaxVars, healthy>>

PageMissing(f) ==
  /\ pc[f] = "page" /\ ~AtListEnd(f)
  /\ listing[f][i[f]] \in Gone
  /\ i' = [i EXCEPT ![f] = @ + 1]
  /\ UNCHANGED <<pc, listing, dzList, j, dzId, jaxVars, healthy>>

PageParsed(f) ==
  /\ pc[f] = "page" /\ ~AtListEnd(f)
  /\ listing[f][i[f]] \notin Gone \cup Broken
  /\ Goto(f, "comments")
  /\ UNCHANGED <<localVars, jaxVars, healthy>>

CommentsParsed(f) ==
  /\ pc[f] = "comments"
  /\ \E p \in CommentPages[listing[f][i[f]]] :
       dzList' = [dzList EXCEPT ![f] = Append(@,
         [dz |-> listing[f][i[f]], recent |-> p.recent, top |-> p.top])]
  /\ i' = [i EXCEPT ![f] = @ + 1]
  /\ Goto(f, "page")
  /\ UNCHANGED <<listing, j, dzId, jaxVars, healthy>>

\* Mutant: a catch inside the loop skips the page it failed on.
GetFailsSkipsPage(f) ==
  /\ pc[f] \in GetPCs \ {"list"} /\ ~AtListEnd(f)
  /\ ~healthy \/ listing[f][i[f]] \in Broken \ Gone
  /\ i' = [i EXCEPT ![f] = @ + 1]
  /\ Goto(f, "page")
  /\ UNCHANGED <<listing, dzList, j, dzId, jaxVars, healthy>>

\* A GET fails (FioraException) or its answer does not parse (a
\* RuntimeException of substring, of the Splitter's iterator, of fastjson):
\* either way the whole pass is given up, with what it parsed.
GetFails(f) ==
  /\ pc[f] \in GetPCs /\ ~AtListEnd(f)
  /\ \E e \in Exceptions :
       /\ \/ ~healthy
          \/ /\ pc[f] = "page" /\ listing[f][i[f]] \in Broken \ Gone
             /\ e = "RuntimeException"
       /\ Throw(f, e)
  /\ UNCHANGED <<jaxVars, healthy>>

StartSave(f) ==
  /\ AtListEnd(f)
  /\ i' = [i EXCEPT ![f] = 1]
  /\ Goto(f, "addDZ")
  /\ UNCHANGED <<listing, dzList, j, dzId, jaxVars, healthy>>

------------------------------------------------------------------------------
(* save.                                                                   *)

\* Mutant: dzId is declared before the loop and keeps the last record's id.
AddDZKeepsId(f) ==
  /\ pc[f] = "addDZ" /\ ~AtSaveEnd(f)
  /\ \/ /\ JaxGivesId(CurrentDz(f))
        /\ dzId' = [dzId EXCEPT ![f] = CurrentDz(f)]
        /\ Goto(f, "recent")
     \/ /\ JaxGivesCode(CurrentDz(f)) \/ NoAnswer(f)
        /\ Goto(f, "retry")
        /\ UNCHANGED dzId
  /\ UNCHANGED <<listing, dzList, i, j, healthy>>

\* The first addDZ, dzId being the fresh 0; any exception leads to the retry.
AddDZ(f) ==
  /\ pc[f] = "addDZ" /\ ~AtSaveEnd(f)
  /\ \/ /\ JaxGivesId(CurrentDz(f))
        /\ dzId' = [dzId EXCEPT ![f] = CurrentDz(f)]
        /\ Goto(f, "recent")
     \/ /\ JaxGivesNoId(CurrentDz(f))
        /\ dzId' = [dzId EXCEPT ![f] = NoDz]
        /\ Goto(f, "recent")
     \/ /\ JaxGivesCode(CurrentDz(f)) \/ NoAnswer(f)
        /\ dzId' = [dzId EXCEPT ![f] = NoDz]
        /\ Goto(f, "retry")
  /\ UNCHANGED <<listing, dzList, i, j, healthy>>

\* Mutant: the retry catches every Exception, as the first call does.
RetryDZCatchesAll(f) ==
  /\ pc[f] = "retry"
  /\ \/ /\ JaxGivesId(CurrentDz(f))
        /\ dzId' = [dzId EXCEPT ![f] = CurrentDz(f)]
     \/ (JaxGivesCode(CurrentDz(f)) \/ NoAnswer(f)) /\ UNCHANGED dzId
  /\ Goto(f, "recent")
  /\ UNCHANGED <<listing, dzList, i, j, healthy>>

\* The second one: an error code is logged and the comments are posted under
\* the dzId there is; any other exception ends the pass.
RetryDZ(f) ==
  /\ pc[f] = "retry"
  /\ \/ /\ JaxGivesId(CurrentDz(f))
        /\ dzId' = [dzId EXCEPT ![f] = CurrentDz(f)]
        /\ Goto(f, "recent")
        /\ UNCHANGED <<listing, dzList, i, j>>
     \/ /\ JaxGivesNoId(CurrentDz(f))
        /\ dzId' = [dzId EXCEPT ![f] = NoDz]
        /\ Goto(f, "recent")
        /\ UNCHANGED <<listing, dzList, i, j>>
     \/ /\ JaxGivesCode(CurrentDz(f))
        /\ Goto(f, "recent")
        /\ UNCHANGED localVars
     \/ NoAnswer(f) /\ \E e \in Exceptions : Throw(f, e)
  /\ UNCHANGED healthy

\* Mutant: the comment loops catch every Exception and go on.
PostCommentCatchesAll(f) ==
  /\ PostsComment(f)
  /\ JaxTakesComment(CurrentRow(f)) \/ NoAnswer(f)
  /\ j' = [j EXCEPT ![f] = @ + 1]
  /\ UNCHANGED <<pc, listing, dzList, i, dzId, healthy>>

\* addRecentComment or addTopComment, under its try: an error code moves on to
\* the next comment, any other exception ends the pass.
PostComment(f) ==
  /\ PostsComment(f)
  /\ \/ /\ \/ JaxTakesComment(CurrentRow(f))
           \/ JaxRefusesComment(CurrentRow(f).comment)
        /\ j' = [j EXCEPT ![f] = @ + 1]
        /\ UNCHANGED <<pc, listing, dzList, i, dzId>>
     \/ NoAnswer(f) /\ \E e \in Exceptions : Throw(f, e)
  /\ UNCHANGED healthy

RecentDone(f) ==
  /\ pc[f] = "recent" /\ j[f] > Len(CurrentComments(f))
  /\ j' = [j EXCEPT ![f] = 1]
  /\ Goto(f, "top")
  /\ UNCHANGED <<listing, dzList, i, dzId, jaxVars, healthy>>

\* Mutant: the comment index restarts from 0.
TopDoneFromZero(f) ==
  /\ pc[f] = "top" /\ j[f] > Len(CurrentComments(f))
  /\ i' = [i EXCEPT ![f] = @ + 1]
  /\ j' = [j EXCEPT ![f] = 0]
  /\ Goto(f, "addDZ")
  /\ UNCHANGED <<listing, dzList, dzId, jaxVars, healthy>>

\* The next record; addDZ declares a dzId of its own for it.
TopDone(f) ==
  /\ pc[f] = "top" /\ j[f] > Len(CurrentComments(f))
  /\ i' = [i EXCEPT ![f] = @ + 1]
  /\ j' = [j EXCEPT ![f] = 1]
  /\ Goto(f, "addDZ")
  /\ UNCHANGED <<listing, dzList, dzId, jaxVars, healthy>>

PassDone(f) ==
  /\ AtSaveEnd(f)
  /\ EndPass(f)
  /\ UNCHANGED <<jaxVars, healthy>>

------------------------------------------------------------------------------
(* FetchTask.run, and what happens to its thread.                          *)

Start(f) ==
  /\ pc[f] = "down"
  /\ Goto(f, "list")
  /\ UNCHANGED <<localVars, jaxVars, healthy>>

Sleep(f) ==
  /\ pc[f] = "sleep"
  /\ Goto(f, "list")
  /\ UNCHANGED <<localVars, jaxVars, healthy>>

\* No call has a timeout: the thread of a live JVM may wait for good, in any call.
CallNeverReturns(f) ==
  /\ InCall(f)
  /\ NoAnswer(f)
  /\ Goto(f, "stuck")
  /\ UNCHANGED <<localVars, healthy>>

\* An Error, which is no Exception, passes the catch of run and ends the thread,
\* with or without a request on its way; its JVM lives.
ErrorEndsThread(f) ==
  /\ pc[f] \in GetPCs \cup SavePCs
  /\ NoAnswer(f)
  /\ Goto(f, "error")
  /\ DropLocals(f)
  /\ UNCHANGED healthy

\* The JVM is killed or crashes, with or without a request on its way.
Kill(f) ==
  /\ pc[f] # "down"
  /\ NoAnswer(f)
  /\ Goto(f, "down")
  /\ DropLocals(f)
  /\ UNCHANGED healthy

Heal ==
  /\ ~healthy
  /\ healthy' = TRUE
  /\ UNCHANGED <<pc, localVars, jaxVars>>

\* The steps of the thread itself.
Run(f) ==
  \/ FetchList(f) \/ PageMissing(f) \/ PageParsed(f) \/ CommentsParsed(f)
  \/ GetFails(f) \/ StartSave(f)
  \/ AddDZ(f) \/ RetryDZ(f) \/ PostComment(f)
  \/ RecentDone(f) \/ TopDone(f) \/ PassDone(f) \/ Sleep(f)

Next ==
  \/ \E f \in Fetchers :
       Run(f) \/ Start(f) \/ CallNeverReturns(f) \/ ErrorEndsThread(f) \/ Kill(f)
  \/ LateDzArrives \/ LateCommentArrives \/ Heal

Spec == Init /\ [][Next]_vars

\* A thread that is in its loop and not stuck in a call goes on; nobody has to
\* start it, to heal the network or to deliver a late request.
FairSpec == Spec /\ \A f \in Fetchers : WF_vars(Run(f))

------------------------------------------------------------------------------
(* Properties.                                                             *)

\* Type correctness of the threads, of JAX's tables and of the requests.
TypeOK ==
  /\ pc \in [Fetchers -> PCs]
  /\ listing \in [Fetchers -> Seq(DZs)]
  /\ dzList \in [Fetchers -> Seq(Record)]
  /\ i \in [Fetchers -> Nat \ {0}]
  /\ j \in [Fetchers -> Nat \ {0}]
  /\ dzId \in [Fetchers -> DZs \cup {NoDz}]
  /\ dzRows \subseteq DZs
  /\ commentRows \subseteq CommentRow
  /\ lateDz \subseteq DZs
  /\ lateComments \subseteq CommentRow
  /\ refused \subseteq DZs \cup Comments
  /\ healthy \in BOOLEAN

\* A comment row that JAX has, or may still get, belongs to the dz its comment
\* was written for, which JAX has, or to no dz.
GoodParent(row) ==
  row.parent # NoDz => row.parent = Owner[row.comment] /\ row.parent \in dzRows

\* However late the answer, whatever failed and whoever was killed: no comment
\* is stored under the dz of another record of the pass, or before its dz.
RowsMatchSite == \A row \in commentRows \cup lateComments : GoodParent(row)

\* A comment is posted under dz 0 only if JAX answered an addDZ of its dz
\* without giving an id: a call that failed is never a reason for it.
OrphanOnlyAfterRefusal ==
  \A row \in commentRows \cup lateComments :
    row.parent = NoDz => Owner[row.comment] \in refused

\* The local state of a thread: it is inside its lists, its records hold the
\* comments of their own dz, the retry starts from dz id 0, and the id under
\* which comments are posted is the record's own or was refused.
ThreadInv(f) ==
  /\ \A k \in DOMAIN dzList[f] :
       /\ dzList[f][k].recent \in Seq(OwnComments(dzList[f][k].dz))
       /\ dzList[f][k].top \in Seq(OwnComments(dzList[f][k].dz))
  /\ pc[f] = "comments" => i[f] <= Len(listing[f])
  /\ pc[f] \in {"retry", "recent", "top"} => i[f] <= Len(dzList[f])
  /\ pc[f] = "retry" => dzId[f] = NoDz
  /\ pc[f] \in {"recent", "top"} =>
       \/ dzId[f] = CurrentDz(f) /\ CurrentDz(f) \in dzRows
       \/ dzId[f] = NoDz /\ CurrentDz(f) \in refused

\* JAX stored the comment or answered without storing it.
Done(c) == Stored(c) \/ c \in refused

\* JAX answered for the dz and for each comment of the record.
Answered(rec) ==
  /\ rec.dz \in dzRows \cup refused
  /\ \A c \in ToSet(rec.recent) \cup ToSet(rec.top) : Done(c)

\* A pass that is still saving has skipped nothing: whatever it is past, JAX
\* stored, or refused with an answer of its own.
NothingSkipped ==
  \A f \in Fetchers :
    pc[f] \in SavePCs =>
      \A k \in 1..(i[f] - 1) : k <= Len(dzList[f]) => Answered(dzList[f][k])

\* The same inside the record the thread is at.
Progress(f) ==
  /\ pc[f] = "recent" =>
       \A k \in 1..(j[f] - 1) :
         k \in DOMAIN dzList[f][i[f]].recent => Done(dzList[f][i[f]].recent[k])
  /\ pc[f] = "top" =>
       /\ \A k \in DOMAIN dzList[f][i[f]].recent : Done(dzList[f][i[f]].recent[k])
       /\ \A k \in 1..(j[f] - 1) :
            k \in DOMAIN dzList[f][i[f]].top => Done(dzList[f][i[f]].top[k])
  /\ pc[f] \notin {"recent", "top", "stuck"} => j[f] = 1

\* The inductive invariant behind RowsMatchSite, OrphanOnlyAfterRefusal and
\* NothingSkipped.
IInv ==
  /\ TypeOK
  /\ \A f \in Fetchers : ThreadInv(f) /\ Progress(f)
  /\ RowsMatchSite
  /\ OrphanOnlyAfterRefusal
  /\ NothingSkipped

\* The records are those of the first n dz of l that are not gone, in their order
\* and as often as they are listed: pos says where in l each record is from.
Covers(recs, l, n) ==
  \E pos \in [DOMAIN recs -> 1..n] :
    /\ \A k \in DOMAIN recs : recs[k].dz = l[pos[k]]
    /\ \A k, h \in DOMAIN recs : k < h => pos[k] < pos[h]
    /\ \A p \in 1..n : l[p] \notin Gone <=> \E k \in DOMAIN recs : pos[k] = p

\* A pass saves exactly the listed dz that are not gone, in their order:
\* nothing is saved of a pass that could not read all of its pages.
SavesWholeListing ==
  \A f \in Fetchers :
    pc[f] \in SavePCs => Covers(dzList[f], listing[f], Len(listing[f]))

\* One page that the parser fails on keeps every dz listed beside it out: a dz
\* is stored only off a listing whose pages all parse.
StoredOnlyFromSoundListing ==
  \A d \in dzRows \cup lateDz :
    \E l \in Listings : d \in ToSet(l) /\ ToSet(l) \cap Broken \subseteq Gone

\* The inductive invariant behind it: a thread has nothing left of the pass
\* before, every record is of a dz of the listing it is at, and what it is past
\* of that listing is gone or was parsed.
ListingInv(f) ==
  /\ pc[f] \in {"list", "sleep", "down"} => dzList[f] = <<>> /\ i[f] = 1
  /\ pc[f] \in {"page", "comments"} \cup SavePCs => listing[f] \in Listings
  /\ \A k \in DOMAIN dzList[f] : dzList[f][k].dz \in ToSet(listing[f])
  /\ pc[f] \in {"page", "comments"} =>
       \A k \in 1..(i[f] - 1) :
         k \in DOMAIN listing[f] => listing[f][k] \notin Broken \ Gone
  /\ pc[f] = "comments" => listing[f][i[f]] \notin Broken
  /\ pc[f] \in SavePCs =>
       \A k \in DOMAIN listing[f] : listing[f][k] \notin Broken \ Gone

ListingIInv ==
  /\ \A f \in Fetchers : ListingInv(f)
  /\ StoredOnlyFromSoundListing

\* Seen from JAX's tables, the import does what ImportedStore says.
Store == INSTANCE ImportedStore WITH
  DZs <- DZs, Comments <- Comments, Owner <- Owner, NoDz <- NoDz,
  dzRows <- dzRows, commentRows <- commentRows
StoreSpec == Store!Spec

\* A fetch thread comes back to the listing for ever, unless a call never returns,
\* an Error ends it or its JVM is down: whatever exception a pass throws, and
\* wherever, the loop goes on.
LoopRecurs ==
  \A f \in Fetchers :
    []<>(pc[f] = "list") \/ <>[](pc[f] \in {"stuck", "error", "down"})

\* What every pass that reads all its pages finds on the site.
AlwaysListed(d) == d \notin Gone /\ \A l \in Listings : d \in ToSet(l)
AlwaysShown(c) ==
  /\ AlwaysListed(Owner[c])
  /\ \A p \in CommentPages[Owner[c]] : c \in ToSet(p.recent) \cup ToSet(p.top)

\* Once nothing fails any more, one live thread is enough for all that the site
\* keeps showing to be in JAX's tables, whatever the failures before left there.
EventuallyImported ==
  (<>healthy /\ \E f \in Fetchers : []<>(pc[f] \notin {"stuck", "error", "down"}))
    => <>[](/\ \A d \in DZs : AlwaysListed(d) => d \in dzRows
            /\ \A c \in Comments : AlwaysShown(c) => Stored(c))
==============================================================================
