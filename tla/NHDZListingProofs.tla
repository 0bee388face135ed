-------------------------- MODULE NHDZListingProofs --------------------------
(* Which dz NHDZFetcher stores at all, for every site and every number of    *)
(* JVMs: only those off a listing whose pages all parse.                     *)
EXTENDS NHDZFetcherProofs

\* A dz that is new in JAX's table, or on its way there, was posted by a thread.
LEMMA DzComesOffAList ==
  ASSUME [Next]_vars
  PROVE  \A d \in dzRows' \cup lateDz' :
           \/ d \in dzRows \cup lateDz
           \/ \E f \in Fetchers : PostsDz(f) /\ d = CurrentDz(f)
<1> DEFINE Comes ==
      \A d \in dzRows' \cup lateDz' :
        \/ d \in dzRows \cup lateDz
        \/ \E f \in Fetchers : PostsDz(f) /\ d = CurrentDz(f)
<1>1. ASSUME UNCHANGED <<dzRows, lateDz>> PROVE Comes
  BY <1>1
<1>2. ASSUME NEW f \in Fetchers, NoAnswer(f) PROVE Comes
  BY <1>2 DEF NoAnswer
<1>3. ASSUME NEW f \in Fetchers, AddDZ(f) \/ RetryDZ(f) PROVE Comes
  <2>1. PostsDz(f)
    BY <1>3 DEF AddDZ, RetryDZ, PostsDz, AtSaveEnd
  <2>2. CASE JaxGivesId(CurrentDz(f)) \/ JaxGivesNoId(CurrentDz(f))
    BY <2>1, <2>2 DEF JaxGivesId, JaxGivesNoId
  <2>3. CASE JaxGivesCode(CurrentDz(f))
    BY <2>3 DEF JaxGivesCode
  <2> QED
    BY <1>2, <1>3, <2>2, <2>3 DEF AddDZ, RetryDZ
<1>4. ASSUME NEW f \in Fetchers, PostComment(f) PROVE Comes
  BY <1>2, <1>4 DEF PostComment, JaxTakesComment, JaxRefusesComment
<1>5. ASSUME NEW f \in Fetchers, CallNeverReturns(f) \/ ErrorEndsThread(f) \/ Kill(f) PROVE Comes
  BY <1>2, <1>5 DEF CallNeverReturns, ErrorEndsThread, Kill
<1>6. ASSUME NEW f \in Fetchers, Start(f) \/ Run(f) PROVE Comes
  BY <1>1, <1>3, <1>4, <1>6
     DEF Start, Run, FetchList, PageMissing, PageParsed, CommentsParsed, GetFails,
         StartSave, RecentDone, TopDone, PassDone, Sleep, jaxVars
<1>7. ASSUME LateDzArrives \/ LateCommentArrives PROVE Comes
  BY <1>7 DEF LateDzArrives, LateCommentArrives
<1>8. ASSUME Heal \/ UNCHANGED vars PROVE Comes
  BY <1>8 DEF Heal, vars, jaxVars
<1> QED
  BY <1>5, <1>6, <1>7, <1>8 DEF Next

\* Reading: the steps of getAndParseDZId and parsePerDZ.
LEMMA ReadStepListingInv ==
  ASSUME TypeOK, NEW f \in Fetchers, ThreadInv(f), ListingInv(f),
         \/ FetchList(f) \/ PageMissing(f) \/ PageParsed(f) \/ CommentsParsed(f)
         \/ StartSave(f)
  PROVE  ListingInv(f)'
<1> USE DEF ListingInv, Goto, localVars, SavePCs
<1>1. CASE FetchList(f)
  BY <1>1 DEF FetchList, TypeOK
<1>2. CASE PageMissing(f)
  BY <1>2 DEF PageMissing, AtListEnd, TypeOK
<1>3. CASE PageParsed(f)
  BY <1>3 DEF PageParsed, AtListEnd, TypeOK
<1>4. CASE CommentsParsed(f)
  <2>0. listing[f][i[f]] \in DZs
    BY <1>4 DEF TypeOK, CommentsParsed, ThreadInv
  <2>1. PICK rec \in [dz : {listing[f][i[f]]}, recent : Seq(Comments), top : Seq(Comments)] :
          dzList'[f] = Append(dzList[f], rec)
    <3>1. PICK p \in CommentPages[listing[f][i[f]]] :
            dzList' = [dzList EXCEPT ![f] = Append(@,
              [dz |-> listing[f][i[f]], recent |-> p.recent, top |-> p.top])]
      BY <1>4 DEF CommentsParsed
    <3>2. [dz |-> listing[f][i[f]], recent |-> p.recent, top |-> p.top] \in Record
      BY <2>0, PageIsRecord
    <3> QED
      BY <3>1, <3>2 DEF TypeOK, Record
  <2>2. dzList[f] \in Seq(Record) /\ rec \in Record /\ rec.dz = listing[f][i[f]]
    BY <2>0 DEF TypeOK, Record
  <2>3. listing[f][i[f]] \in ToSet(listing[f])
    BY <1>4 DEF CommentsParsed, ThreadInv, TypeOK, ToSet
  <2>4. \A k \in DOMAIN dzList'[f] : dzList'[f][k].dz \in ToSet(listing[f])
    BY <2>1, <2>2, <2>3
  <2>5. /\ pc'[f] = "page" /\ listing'[f] = listing[f] /\ i'[f] = i[f] + 1
        /\ pc[f] = "comments"
    BY <1>4 DEF CommentsParsed, TypeOK
  <2>6. \A k \in 1..i[f] : k \in DOMAIN listing[f] => listing[f][k] \notin Broken \ Gone
    BY <2>5 DEF TypeOK
  <2> QED
    BY <2>4, <2>5, <2>6 DEF TypeOK
<1>5. CASE StartSave(f)
  BY <1>5 DEF StartSave, AtListEnd, TypeOK
<1> QED
  BY <1>1, <1>2, <1>3, <1>4, <1>5

\* Saving, and what ends or restarts a pass.
LEMMA OtherStepListingInv ==
  ASSUME TypeOK, NEW f \in Fetchers, ListingInv(f),
         \/ GetFails(f) \/ AddDZ(f) \/ RetryDZ(f) \/ PostComment(f)
         \/ RecentDone(f) \/ TopDone(f) \/ PassDone(f) \/ Sleep(f) \/ Start(f)
         \/ CallNeverReturns(f) \/ ErrorEndsThread(f) \/ Kill(f)
  PROVE  ListingInv(f)'
<1> USE DEF ListingInv, Goto, localVars, SavePCs
<1>0. ASSUME DropLocals(f), pc'[f] \in {"sleep", "error", "down"} PROVE ListingInv(f)'
  BY <1>0 DEF DropLocals, TypeOK
<1>1. ASSUME EndPass(f) PROVE ListingInv(f)'
  BY <1>0, <1>1 DEF EndPass, TypeOK
<1>2. CASE GetFails(f) \/ PassDone(f)
  BY <1>1, <1>2, ThrowEndsPass DEF PassDone
<1>3. CASE AddDZ(f)
  BY <1>3 DEF AddDZ, TypeOK
<1>4. CASE RetryDZ(f)
  BY <1>1, <1>4, ThrowEndsPass DEF RetryDZ, TypeOK
<1>5. CASE PostComment(f)
  BY <1>1, <1>5, ThrowEndsPass DEF PostComment, PostsComment, TypeOK
<1>6. CASE RecentDone(f) \/ TopDone(f)
  BY <1>6 DEF RecentDone, TopDone, TypeOK
<1>7. CASE Sleep(f) \/ Start(f)
  BY <1>7 DEF Sleep, Start, TypeOK
<1>8. CASE CallNeverReturns(f)
  BY <1>8 DEF CallNeverReturns, InCall, GetPCs, PostsDz, PostsComment, TypeOK
<1>9. CASE ErrorEndsThread(f) \/ Kill(f)
  BY <1>0, <1>9 DEF ErrorEndsThread, Kill, TypeOK
<1> QED
  BY <1>2, <1>3, <1>4, <1>5, <1>6, <1>7, <1>8, <1>9

LEMMA InitListingIInv == Init => ListingIInv
  BY DEF Init, ListingIInv, ListingInv, StoredOnlyFromSoundListing, SavePCs

LEMMA NextListingIInv == IInv /\ ListingIInv /\ [Next]_vars => ListingIInv'
<1> SUFFICES ASSUME IInv, ListingIInv, [Next]_vars PROVE ListingIInv'
  OBVIOUS
<1>1. ASSUME NEW g \in Fetchers PROVE ListingInv(g)'
  <2>0. TypeOK /\ ThreadInv(g) /\ ListingInv(g)
    BY DEF IInv, ListingIInv
  <2>1. CASE UNCHANGED Locals(g)
    BY <2>0, <2>1 DEF ListingInv, Locals
  <2>2. CASE Run(g) \/ Start(g) \/ CallNeverReturns(g) \/ ErrorEndsThread(g) \/ Kill(g)
    BY <2>0, <2>2, ReadStepListingInv, OtherStepListingInv DEF Run
  <2>3. ASSUME NEW f \in Fetchers \ {g},
               Run(f) \/ Start(f) \/ CallNeverReturns(f) \/ ErrorEndsThread(f) \/ Kill(f)
        PROVE  UNCHANGED Locals(g)
    BY <2>0, <2>3, OthersKeepLocals
  <2>4. LateDzArrives \/ LateCommentArrives \/ Heal \/ UNCHANGED vars
          => UNCHANGED Locals(g)
    BY DEF LateDzArrives, LateCommentArrives, Heal, vars, localVars, Locals
  <2> QED
    BY <2>1, <2>2, <2>3, <2>4 DEF Next
<1>2. ASSUME NEW f \in Fetchers, PostsDz(f)
      PROVE  \E l \in Listings : CurrentDz(f) \in ToSet(l) /\ ToSet(l) \cap Broken \subseteq Gone
  <2>1. pc[f] \in SavePCs /\ i[f] \in DOMAIN dzList[f]
    BY <1>2 DEF PostsDz, AtSaveEnd, SavePCs, IInv, TypeOK, ThreadInv
  <2>2. listing[f] \in Listings /\ CurrentDz(f) \in ToSet(listing[f])
    BY <2>1 DEF ListingIInv, ListingInv, CurrentDz, SavePCs
  <2>3. ToSet(listing[f]) \cap Broken \subseteq Gone
    BY <2>1 DEF ListingIInv, ListingInv, ToSet
  <2> QED
    BY <2>2, <2>3
<1>3. StoredOnlyFromSoundListing'
  BY <1>2, DzComesOffAList DEF ListingIInv, StoredOnlyFromSoundListing
<1> QED
  BY <1>1, <1>3 DEF ListingIInv

\* parsePerDZ reads a whole listing or gives the pass up: one page it cannot
\* parse keeps every dz that is only listed beside it out of JAX.
THEOREM StoresOffSoundListings == Spec => []StoredOnlyFromSoundListing
<1>1. IInv /\ ListingIInv /\ [Next]_vars => ListingIInv'
  BY NextListingIInv
<1>2. ListingIInv => StoredOnlyFromSoundListing
  BY DEF ListingIInv
<1> QED
  BY <1>1, <1>2, Invariance, InitListingIInv, PTL DEF Spec

------------------------------------------------------------------------------
(* What a pass saves.                                                      *)

\* What the records of a thread cover at each point of the pass.
CoverInv(f) ==
  /\ pc[f] \in {"page", "comments"} =>
       i[f] <= Len(listing[f]) + 1 /\ Covers(dzList[f], listing[f], i[f] - 1)
  /\ pc[f] = "comments" => listing[f][i[f]] \notin Gone
  /\ pc[f] \in SavePCs => Covers(dzList[f], listing[f], Len(listing[f]))

\* The inductive invariant behind SavesWholeListing, with IInv and ListingIInv.
CoverIInv == \A f \in Fetchers : CoverInv(f)

LEMMA CoversNothing ==
  ASSUME NEW l
  PROVE  Covers(<<>>, l, 0)
<1> DEFINE none == [k \in {} |-> 1]
<1>1. DOMAIN <<>> = {}
  OBVIOUS
<1>2. none \in [{} -> 1..0]
  OBVIOUS
<1> HIDE DEF none
<1>3. \A p \in 1..0 : FALSE
  OBVIOUS
<1> QED
  BY <1>1, <1>2, <1>3, Zenon DEF Covers

\* A dz that is gone is covered by no record.
LEMMA CoversGone ==
  ASSUME NEW recs, NEW l, NEW n \in Nat, Covers(recs, l, n), l[n + 1] \in Gone
  PROVE  Covers(recs, l, n + 1)
<1>1. PICK pos \in [DOMAIN recs -> 1..n] :
        /\ \A k \in DOMAIN recs : recs[k].dz = l[pos[k]]
        /\ \A k, h \in DOMAIN recs : k < h => pos[k] < pos[h]
        /\ \A p \in 1..n : l[p] \notin Gone <=> \E k \in DOMAIN recs : pos[k] = p
  BY DEF Covers
<1>2. pos \in [DOMAIN recs -> 1..(n + 1)]
  BY <1>1
<1>3. ASSUME NEW p \in 1..(n + 1)
      PROVE  l[p] \notin Gone <=> \E k \in DOMAIN recs : pos[k] = p
  BY <1>1, p \in 1..n \/ p = n + 1
<1> QED
  BY <1>1, <1>2, <1>3 DEF Covers

\* A dz that is not gone is covered by the record that is appended for it.
LEMMA CoversMore ==
  ASSUME NEW recs \in Seq(Record), NEW rec \in Record, NEW l, NEW n \in Nat,
         Covers(recs, l, n), l[n + 1] \notin Gone, rec.dz = l[n + 1]
  PROVE  Covers(Append(recs, rec), l, n + 1)
<1>1. PICK pos \in [DOMAIN recs -> 1..n] :
        /\ \A k \in DOMAIN recs : recs[k].dz = l[pos[k]]
        /\ \A k, h \in DOMAIN recs : k < h => pos[k] < pos[h]
        /\ \A p \in 1..n : l[p] \notin Gone <=> \E k \in DOMAIN recs : pos[k] = p
  BY DEF Covers
<1> DEFINE all == Append(recs, rec)
           last == Len(recs) + 1
           longer == [k \in DOMAIN all |-> IF k = last THEN n + 1 ELSE pos[k]]
<1>2. /\ Len(recs) \in Nat /\ DOMAIN recs = 1..Len(recs) /\ DOMAIN all = 1..last
      /\ all[last] = rec /\ \A k \in DOMAIN recs : all[k] = recs[k]
  OBVIOUS
<1>3. \A k \in DOMAIN all : k = last \/ k \in DOMAIN recs
  BY <1>2
<1>4. longer[last] = n + 1 /\ \A k \in DOMAIN recs : longer[k] = pos[k] /\ pos[k] \in 1..n
  BY <1>1, <1>2
<1>5. longer \in [DOMAIN all -> 1..(n + 1)]
  BY <1>1, <1>2, <1>3
<1> HIDE DEF all, last, longer
<1>6. \A k \in DOMAIN all : all[k].dz = l[longer[k]]
  BY <1>1, <1>2, <1>3, <1>4
<1>7. ASSUME NEW k \in DOMAIN all, NEW h \in DOMAIN all, k < h
      PROVE  longer[k] < longer[h]
  <2>1. k \in DOMAIN recs
    BY <1>2, <1>3, <1>7 DEF last
  <2>2. CASE h = last
    BY <1>4, <2>1, <2>2
  <2>3. CASE h \in DOMAIN recs
    BY <1>1, <1>4, <1>7, <2>1, <2>3
  <2> QED
    BY <1>3, <2>2, <2>3
<1>8. ASSUME NEW p \in 1..(n + 1)
      PROVE  l[p] \notin Gone <=> \E k \in DOMAIN all : longer[k] = p
  <2>1. CASE p = n + 1
    BY <1>2, <1>4, <2>1 DEF last
  <2>2. CASE p \in 1..n
    <3>1. (\E k \in DOMAIN all : longer[k] = p) <=> \E k \in DOMAIN recs : pos[k] = p
      BY <1>2, <1>3, <1>4, <2>2 DEF last
    <3> QED
      BY <1>1, <2>2, <3>1
  <2> QED
    BY <2>1, <2>2
<1>9. Covers(all, l, n + 1)
  BY <1>5, <1>6, <1>7, <1>8 DEF Covers
<1> QED
  BY <1>9 DEF all

\* A step of the thread itself, on what its records cover.
LEMMA OwnCoverStep ==
  ASSUME TypeOK, NEW f \in Fetchers, ThreadInv(f), ListingInv(f), CoverInv(f),
         Run(f) \/ Start(f) \/ CallNeverReturns(f) \/ ErrorEndsThread(f) \/ Kill(f)
  PROVE  CoverInv(f)'
<1> USE DEF CoverInv, Goto, localVars, SavePCs
<1>0. i[f] \in Nat \ {0} /\ dzList[f] \in Seq(Record) /\ listing[f] \in Seq(DZs)
  BY DEF TypeOK
<1>1. CASE FetchList(f)
  <2>1. /\ pc'[f] = "page" /\ i'[f] = 1 /\ dzList'[f] = <<>>
        /\ listing'[f] \in Listings /\ Len(listing'[f]) \in Nat
    BY <1>1, SiteAssumption DEF FetchList, ListingInv, TypeOK
  <2>2. Covers(dzList'[f], listing'[f], i'[f] - 1)
    BY <2>1, CoversNothing
  <2> QED
    BY <2>1, <2>2
<1>2. CASE PageMissing(f)
  <2>1. /\ pc[f] = "page" /\ pc'[f] = "page" /\ i'[f] = i[f] + 1 /\ dzList'[f] = dzList[f]
        /\ listing'[f] = listing[f] /\ listing[f][i[f]] \in Gone /\ i[f] <= Len(listing[f])
    BY <1>0, <1>2 DEF PageMissing, AtListEnd, TypeOK
  <2>2. i[f] - 1 \in Nat /\ (i[f] - 1) + 1 = i[f] /\ i'[f] - 1 = i[f]
    BY <1>0, <2>1
  <2>3. Covers(dzList[f], listing[f], i[f])
    BY <2>1, <2>2, CoversGone
  <2> QED
    BY <1>0, <2>1, <2>2, <2>3
<1>3. CASE PageParsed(f)
  BY <1>3 DEF PageParsed, TypeOK
<1>4. CASE CommentsParsed(f)
  <2>0. listing[f][i[f]] \in DZs
    BY <1>0, <1>4 DEF CommentsParsed, ThreadInv
  <2>1. PICK rec \in Record :
          dzList'[f] = Append(dzList[f], rec) /\ rec.dz = listing[f][i[f]]
    <3>1. PICK p \in CommentPages[listing[f][i[f]]] :
            dzList' = [dzList EXCEPT ![f] = Append(@,
              [dz |-> listing[f][i[f]], recent |-> p.recent, top |-> p.top])]
      BY <1>4 DEF CommentsParsed
    <3>2. [dz |-> listing[f][i[f]], recent |-> p.recent, top |-> p.top] \in Record
      BY <2>0, PageIsRecord
    <3> QED
      BY <3>1, <3>2 DEF TypeOK
  <2>2. /\ pc[f] = "comments" /\ pc'[f] = "page" /\ i'[f] = i[f] + 1
        /\ listing'[f] = listing[f]
    BY <1>4 DEF CommentsParsed, TypeOK
  <2>3. i[f] - 1 \in Nat /\ (i[f] - 1) + 1 = i[f] /\ i'[f] - 1 = i[f]
    BY <1>0, <2>2
  <2>4. Covers(dzList[f], listing[f], i[f] - 1) /\ listing[f][i[f]] \notin Gone
    BY <2>2
  <2> HIDE DEF CoverInv
  <2>5. Covers(dzList'[f], listing[f], i[f])
    BY <1>0, <2>1, <2>3, <2>4, CoversMore
  <2>6. i'[f] <= Len(listing'[f]) + 1
    BY <1>0, <1>4, <2>2 DEF ThreadInv
  <2> QED
    BY <2>2, <2>3, <2>5, <2>6 DEF CoverInv
<1>5. CASE StartSave(f)
  <2>1. i[f] - 1 = Len(listing[f])
    BY <1>0, <1>5 DEF StartSave, AtListEnd
  <2> QED
    BY <1>5, <2>1 DEF StartSave, AtListEnd, TypeOK
<1>6. ASSUME pc'[f] \in {"list", "sleep", "stuck", "error", "down"} PROVE CoverInv(f)'
  BY <1>6
<1>7. CASE \/ GetFails(f) \/ PassDone(f) \/ Sleep(f) \/ Start(f)
            \/ CallNeverReturns(f) \/ ErrorEndsThread(f) \/ Kill(f)
  BY <1>6, <1>7, ThrowEndsPass
     DEF PassDone, EndPass, Sleep, Start, CallNeverReturns, ErrorEndsThread, Kill, TypeOK
<1>8. ASSUME pc[f] \in SavePCs, pc'[f] \in SavePCs, UNCHANGED <<listing, dzList>>
      PROVE  CoverInv(f)'
  BY <1>8
<1>9. CASE AddDZ(f) \/ RecentDone(f) \/ TopDone(f)
  BY <1>8, <1>9 DEF AddDZ, RecentDone, TopDone, TypeOK
<1>10. CASE RetryDZ(f)
  BY <1>6, <1>8, <1>10, ThrowEndsPass DEF RetryDZ, EndPass, TypeOK
<1>11. CASE PostComment(f)
  BY <1>6, <1>8, <1>11, ThrowEndsPass DEF PostComment, PostsComment, EndPass, TypeOK
<1> QED
  BY <1>1, <1>2, <1>3, <1>4, <1>5, <1>7, <1>9, <1>10, <1>11 DEF Run

LEMMA InitCoverIInv == Init => CoverIInv
  BY DEF Init, CoverIInv, CoverInv, SavePCs

LEMMA NextCoverIInv == IInv /\ ListingIInv /\ CoverIInv /\ [Next]_vars => CoverIInv'
<1> SUFFICES ASSUME IInv, ListingIInv, CoverIInv, [Next]_vars, NEW g \in Fetchers
             PROVE  CoverInv(g)'
  BY DEF CoverIInv
<1>0. TypeOK /\ ThreadInv(g) /\ ListingInv(g) /\ CoverInv(g)
  BY DEF IInv, ListingIInv, CoverIInv
<1>1. CASE UNCHANGED Locals(g)
  BY <1>0, <1>1 DEF CoverInv, Locals
<1>2. CASE Run(g) \/ Start(g) \/ CallNeverReturns(g) \/ ErrorEndsThread(g) \/ Kill(g)
  BY <1>0, <1>2, OwnCoverStep
<1>3. ASSUME NEW f \in Fetchers \ {g},
             Run(f) \/ Start(f) \/ CallNeverReturns(f) \/ ErrorEndsThread(f) \/ Kill(f)
      PROVE  UNCHANGED Locals(g)
  BY <1>0, <1>3, OthersKeepLocals
<1>4. LateDzArrives \/ LateCommentArrives \/ Heal \/ UNCHANGED vars => UNCHANGED Locals(g)
  BY DEF LateDzArrives, LateCommentArrives, Heal, vars, localVars, Locals
<1> QED
  BY <1>1, <1>2, <1>3, <1>4 DEF Next

\* fetch saves a pass whole or not at all: what save works through is a record for
\* each listed dz that is not gone, in the order of the listing.
THEOREM SavesWhole == Spec => []SavesWholeListing
<1>1. CoverIInv => SavesWholeListing
  BY DEF CoverIInv, CoverInv, SavesWholeListing
<1>2. IInv /\ ListingIInv /\ [Next]_vars => ListingIInv'
  BY NextListingIInv
<1>3. IInv /\ ListingIInv /\ CoverIInv /\ [Next]_vars => CoverIInv'
  BY NextCoverIInv
<1> QED
  BY <1>1, <1>2, <1>3, Invariance, InitListingIInv, InitCoverIInv, PTL DEF Spec
=============================================================================
