-------------------------- MODULE NHDZFetcherProofs --------------------------
(* What holds of NHDZFetcher for every site, every number of JVMs and every  *)
(* bound on the requests under way.                                          *)
EXTENDS NHDZFetcher, TLAPS

\* TypeOK in two parts: the threads', and JAX's with the requests under way.
ThreadTypeOK ==
  /\ pc \in [Fetchers -> PCs]
  /\ listing \in [Fetchers -> Seq(DZs)]
  /\ dzList \in [Fetchers -> Seq(Record)]
  /\ i \in [Fetchers -> Nat \ {0}]
  /\ j \in [Fetchers -> Nat \ {0}]
  /\ dzId \in [Fetchers -> DZs \cup {NoDz}]

JaxTypeOK ==
  /\ dzRows \subseteq DZs
  /\ commentRows \subseteq CommentRow
  /\ lateDz \subseteq DZs
  /\ lateComments \subseteq CommentRow
  /\ refused \subseteq DZs \cup Comments

\* Whatever a pass throws ends the pass, and no more than the pass.
LEMMA ThrowEndsPass ==
  ASSUME NEW f
  PROVE  /\ (\E e \in Exceptions : Throw(f, e)) <=> EndPass(f)
         /\ GetFails(f) => EndPass(f)
  BY DEF Throw, Caught, Exceptions, GetFails

LEMMA InitTypeOK == Init => TypeOK
<1> SUFFICES ASSUME Init PROVE TypeOK
  OBVIOUS
<1> USE DEF Init
<1>1. pc \in [Fetchers -> PCs]
  BY DEF PCs
<1>2. listing \in [Fetchers -> Seq(DZs)]
  OBVIOUS
<1>3. dzList \in [Fetchers -> Seq(Record)]
  OBVIOUS
<1>4. i \in [Fetchers -> Nat \ {0}] /\ j \in [Fetchers -> Nat \ {0}]
  OBVIOUS
<1>5. dzId \in [Fetchers -> DZs \cup {NoDz}]
  OBVIOUS
<1>6. dzRows = {} /\ commentRows = {} /\ lateDz = {} /\ lateComments = {} /\ refused = {} /\ healthy = FALSE
  OBVIOUS
<1> QED
  BY <1>1, <1>2, <1>3, <1>4, <1>5, <1>6 DEF TypeOK

LEMMA CurrentRowType ==
  ASSUME TypeOK, NEW f \in Fetchers, PostsComment(f), i[f] \in DOMAIN dzList[f]
  PROVE  CurrentRow(f) \in CommentRow
<1>1. dzList[f][i[f]] \in Record
  BY DEF TypeOK
<1>2. CurrentComments(f) \in Seq(Comments)
  BY <1>1 DEF CurrentComments, Record
<1>3. CurrentComments(f)[j[f]] \in Comments
  BY <1>2 DEF PostsComment, TypeOK
<1> QED
  BY <1>3 DEF CurrentRow, CommentRow, TypeOK

LEMMA PageIsRecord ==
  ASSUME NEW d \in DZs, NEW p \in CommentPages[d]
  PROVE  [dz |-> d, recent |-> p.recent, top |-> p.top] \in Record
<1>1. p.recent \in Seq(OwnComments(d)) /\ p.top \in Seq(OwnComments(d))
  BY SiteAssumption
<1>2. OwnComments(d) \subseteq Comments
  BY DEF OwnComments
<1>3. Seq(OwnComments(d)) \subseteq Seq(Comments)
  BY <1>2
<1> QED
  BY <1>1, <1>3 DEF Record

LEMMA EndPassTypeOK ==
  ASSUME TypeOK, NEW f \in Fetchers, EndPass(f)
  PROVE  ThreadTypeOK'
<1>1. pc' \in [Fetchers -> PCs]
  BY DEF TypeOK, EndPass, Goto, PCs
<1>2. /\ listing' \in [Fetchers -> Seq(DZs)]
      /\ dzList' \in [Fetchers -> Seq(Record)]
  BY DEF TypeOK, EndPass, DropLocals
<1>3. /\ i' \in [Fetchers -> Nat \ {0}]
      /\ j' \in [Fetchers -> Nat \ {0}]
      /\ dzId' \in [Fetchers -> DZs \cup {NoDz}]
  BY DEF TypeOK, EndPass, DropLocals
<1> QED
  BY <1>1, <1>2, <1>3 DEF ThreadTypeOK

\* Types, one lemma per group of actions.
LEMMA ThreadStepTypeOK ==
  ASSUME TypeOK, NEW f \in Fetchers
  PROVE  /\ FetchList(f) => TypeOK'
         /\ PageMissing(f) => TypeOK'
         /\ PageParsed(f) => TypeOK'
         /\ GetFails(f) => TypeOK'
         /\ StartSave(f) => TypeOK'
         /\ RecentDone(f) => TypeOK'
         /\ TopDone(f) => TypeOK'
         /\ PassDone(f) => TypeOK'
         /\ Sleep(f) => TypeOK'
         /\ Start(f) => TypeOK'
<1>1. ASSUME FetchList(f) PROVE TypeOK'
  BY <1>1, SiteAssumption DEF FetchList, TypeOK, PCs, GetPCs, SavePCs, Goto, EndPass, DropLocals, localVars, jaxVars
<1>2. ASSUME PageMissing(f) PROVE TypeOK'
  BY <1>2 DEF PageMissing, TypeOK, PCs, GetPCs, SavePCs, Goto, EndPass, DropLocals, localVars, jaxVars
<1>3. ASSUME PageParsed(f) PROVE TypeOK'
  BY <1>3 DEF PageParsed, TypeOK, PCs, GetPCs, SavePCs, Goto, EndPass, DropLocals, localVars, jaxVars
<1>4. ASSUME GetFails(f) PROVE TypeOK'
  BY <1>4, ThrowEndsPass, EndPassTypeOK DEF GetFails, TypeOK, ThreadTypeOK, jaxVars
<1>5. ASSUME StartSave(f) PROVE TypeOK'
  BY <1>5 DEF StartSave, TypeOK, PCs, GetPCs, SavePCs, Goto, EndPass, DropLocals, localVars, jaxVars
<1>6. ASSUME RecentDone(f) PROVE TypeOK'
  BY <1>6 DEF RecentDone, TypeOK, PCs, GetPCs, SavePCs, Goto, EndPass, DropLocals, localVars, jaxVars
<1>7. ASSUME TopDone(f) PROVE TypeOK'
  BY <1>7 DEF TopDone, TypeOK, PCs, GetPCs, SavePCs, Goto, EndPass, DropLocals, localVars, jaxVars
<1>8. ASSUME PassDone(f) PROVE TypeOK'
  BY <1>8 DEF PassDone, TypeOK, PCs, GetPCs, SavePCs, Goto, EndPass, DropLocals, localVars, jaxVars
<1>9. ASSUME Sleep(f) PROVE TypeOK'
  BY <1>9 DEF Sleep, TypeOK, PCs, GetPCs, SavePCs, Goto, EndPass, DropLocals, localVars, jaxVars
<1>10. ASSUME Start(f) PROVE TypeOK'
  BY <1>10 DEF Start, TypeOK, PCs, GetPCs, SavePCs, Goto, EndPass, DropLocals, localVars, jaxVars
<1> QED
  BY <1>1, <1>2, <1>3, <1>4, <1>5, <1>6, <1>7, <1>8, <1>9, <1>10

LEMMA CommentsParsedTypeOK ==
  ASSUME TypeOK, NEW f \in Fetchers, CommentsParsed(f), ThreadInv(f)
  PROVE  TypeOK'
<1>1. listing[f][i[f]] \in DZs
  BY DEF TypeOK, ThreadInv, CommentsParsed
<1>2. PICK p \in CommentPages[listing[f][i[f]]] :
        dzList' = [dzList EXCEPT ![f] = Append(@,
          [dz |-> listing[f][i[f]], recent |-> p.recent, top |-> p.top])]
  BY DEF CommentsParsed
<1>3. [dz |-> listing[f][i[f]], recent |-> p.recent, top |-> p.top] \in Record
  BY <1>1, PageIsRecord
<1>4. dzList' \in [Fetchers -> Seq(Record)]
  BY <1>2, <1>3 DEF TypeOK
<1>5. i' \in [Fetchers -> Nat \ {0}] /\ pc' \in [Fetchers -> PCs]
  BY DEF TypeOK, CommentsParsed, Goto, PCs, GetPCs
<1> QED
  BY <1>4, <1>5 DEF TypeOK, CommentsParsed, jaxVars

\* What a thread posts is well typed.
LEMMA PostedTypeOK ==
  ASSUME TypeOK, NEW f \in Fetchers, ThreadInv(f)
  PROVE  /\ PostsDz(f) => CurrentDz(f) \in DZs
         /\ PostsComment(f) => CurrentRow(f) \in CommentRow
<1>1. ASSUME i[f] \in DOMAIN dzList[f] PROVE CurrentDz(f) \in DZs
  <2>1. dzList[f][i[f]] \in Record
    BY <1>1 DEF TypeOK
  <2> QED
    BY <2>1 DEF CurrentDz, Record
<1>2. PostsDz(f) \/ PostsComment(f) => i[f] \in DOMAIN dzList[f]
  BY DEF PostsDz, PostsComment, AtSaveEnd, ThreadInv, TypeOK
<1> QED
  BY <1>1, <1>2, CurrentRowType

\* JAX's answers and silences.
LEMMA AnswersTypeOK ==
  ASSUME TypeOK
  PROVE  /\ \A d \in DZs :
              JaxGivesId(d) \/ JaxGivesNoId(d) \/ JaxGivesCode(d) => JaxTypeOK'
         /\ \A row \in CommentRow :
              JaxTakesComment(row) \/ JaxRefusesComment(row.comment) => JaxTypeOK'
<1>1. ASSUME NEW d \in DZs, JaxGivesId(d) \/ JaxGivesNoId(d) \/ JaxGivesCode(d)
      PROVE  JaxTypeOK'
  BY <1>1 DEF TypeOK, JaxTypeOK, JaxGivesId, JaxGivesNoId, JaxGivesCode
<1>2. ASSUME NEW row \in CommentRow,
             JaxTakesComment(row) \/ JaxRefusesComment(row.comment)
      PROVE  JaxTypeOK'
  <2>1. row.comment \in Comments
    BY DEF CommentRow
  <2> QED
    BY <1>2, <2>1 DEF TypeOK, JaxTypeOK, JaxTakesComment, JaxRefusesComment
<1> QED
  BY <1>1, <1>2

LEMMA NoAnswerTypeOK ==
  ASSUME TypeOK, NEW f \in Fetchers, ThreadInv(f), NoAnswer(f)
  PROVE  JaxTypeOK'
  BY PostedTypeOK DEF TypeOK, JaxTypeOK, NoAnswer

LEMMA PostStepTypeOK ==
  ASSUME TypeOK, NEW f \in Fetchers, ThreadInv(f),
         AddDZ(f) \/ RetryDZ(f) \/ PostComment(f) \/ CallNeverReturns(f) \/ ErrorEndsThread(f) \/ Kill(f)
  PROVE  TypeOK'
<1> USE DEF PCs, SavePCs, Goto
<1>1. CASE AddDZ(f)
  <2>1. CurrentDz(f) \in DZs
    BY <1>1, PostedTypeOK DEF AddDZ, PostsDz
  <2>2. JaxTypeOK'
    BY <1>1, <2>1, AnswersTypeOK, NoAnswerTypeOK DEF AddDZ
  <2>3. ThreadTypeOK'
    BY <1>1, <2>1 DEF AddDZ, TypeOK, ThreadTypeOK
  <2> QED
    BY <1>1, <2>2, <2>3 DEF AddDZ, TypeOK, JaxTypeOK, ThreadTypeOK
<1>2. CASE RetryDZ(f)
  <2>1. CurrentDz(f) \in DZs
    BY <1>2, PostedTypeOK DEF RetryDZ, PostsDz, AtSaveEnd
  <2>2. JaxTypeOK'
    BY <1>2, <2>1, AnswersTypeOK, NoAnswerTypeOK DEF RetryDZ
  <2>3. CASE EndPass(f)
    BY <1>2, <2>2, <2>3, EndPassTypeOK DEF RetryDZ, TypeOK, JaxTypeOK, ThreadTypeOK
  <2>4. CASE ~EndPass(f)
    <3>1. ThreadTypeOK'
      BY <1>2, <2>1, <2>4, ThrowEndsPass DEF RetryDZ, TypeOK, ThreadTypeOK, localVars
    <3> QED
      BY <1>2, <2>2, <3>1 DEF RetryDZ, TypeOK, JaxTypeOK, ThreadTypeOK
  <2> QED
    BY <2>3, <2>4
<1>3. CASE PostComment(f)
  <2>1. CurrentRow(f) \in CommentRow
    BY <1>3, PostedTypeOK DEF PostComment
  <2>2. JaxTypeOK'
    BY <1>3, <2>1, AnswersTypeOK, NoAnswerTypeOK DEF PostComment
  <2>3. ThreadTypeOK'
    <3>1. CASE EndPass(f)
      BY <3>1, EndPassTypeOK
    <3>2. CASE ~EndPass(f)
      BY <1>3, <3>2, ThrowEndsPass DEF PostComment, TypeOK, ThreadTypeOK
    <3> QED
      BY <3>1, <3>2
  <2> QED
    BY <1>3, <2>2, <2>3 DEF PostComment, TypeOK, JaxTypeOK, ThreadTypeOK
<1>4. CASE CallNeverReturns(f)
  BY <1>4, NoAnswerTypeOK DEF CallNeverReturns, TypeOK, JaxTypeOK, localVars
<1>5. CASE ErrorEndsThread(f)
  BY <1>5, NoAnswerTypeOK DEF ErrorEndsThread, TypeOK, JaxTypeOK, DropLocals
<1>6. CASE Kill(f)
  BY <1>6, NoAnswerTypeOK DEF Kill, TypeOK, JaxTypeOK, DropLocals
<1> QED
  BY <1>1, <1>2, <1>3, <1>4, <1>5, <1>6

LEMMA NextTypeOK ==
  ASSUME TypeOK, \A f \in Fetchers : ThreadInv(f), [Next]_vars
  PROVE  TypeOK'
<1>1. ASSUME NEW f \in Fetchers, Run(f) \/ Start(f) PROVE TypeOK'
  BY <1>1, ThreadStepTypeOK, CommentsParsedTypeOK, PostStepTypeOK DEF Run
<1>2. ASSUME NEW f \in Fetchers, CallNeverReturns(f) \/ ErrorEndsThread(f) \/ Kill(f) PROVE TypeOK'
  BY <1>2, PostStepTypeOK
<1>3. CASE LateDzArrives
  BY <1>3 DEF LateDzArrives, TypeOK, localVars
<1>4. CASE LateCommentArrives
  BY <1>4 DEF LateCommentArrives, TypeOK, localVars
<1>5. CASE Heal
  BY <1>5 DEF Heal, TypeOK, localVars, jaxVars
<1>6. CASE UNCHANGED vars
  BY <1>6 DEF vars, TypeOK, localVars, jaxVars
<1> QED
  BY <1>1, <1>2, <1>3, <1>4, <1>5, <1>6 DEF Next

------------------------------------------------------------------------------
(* What a step does to JAX's tables, seen from outside.                    *)

\* Nothing is taken back, and a row that is new came off a thread's list or was
\* on its way.
LEMMA StepOfJax ==
  ASSUME [Next]_vars
  PROVE  /\ dzRows \subseteq dzRows' /\ refused \subseteq refused'
         /\ commentRows \subseteq commentRows'
         /\ \A row \in commentRows' \cup lateComments' :
              \/ row \in commentRows \cup lateComments
              \/ \E f \in Fetchers : PostsComment(f) /\ row = CurrentRow(f)
<1> DEFINE Steps ==
      /\ dzRows \subseteq dzRows' /\ refused \subseteq refused'
      /\ commentRows \subseteq commentRows'
      /\ \A row \in commentRows' \cup lateComments' :
           \/ row \in commentRows \cup lateComments
           \/ \E f \in Fetchers : PostsComment(f) /\ row = CurrentRow(f)
<1>1. ASSUME UNCHANGED jaxVars PROVE Steps
  BY <1>1 DEF jaxVars
<1>2. ASSUME NEW f \in Fetchers, NoAnswer(f) PROVE Steps
  BY <1>2 DEF NoAnswer
<1>3. ASSUME NEW d, JaxGivesId(d) \/ JaxGivesNoId(d) \/ JaxGivesCode(d) PROVE Steps
  BY <1>3 DEF JaxGivesId, JaxGivesNoId, JaxGivesCode
<1>4. ASSUME NEW f \in Fetchers, PostsComment(f),
             JaxTakesComment(CurrentRow(f)) \/ JaxRefusesComment(CurrentRow(f).comment)
      PROVE  Steps
  BY <1>4 DEF JaxTakesComment, JaxRefusesComment
<1>5. ASSUME NEW f \in Fetchers, AddDZ(f) \/ RetryDZ(f) PROVE Steps
  BY <1>2, <1>3, <1>5 DEF AddDZ, RetryDZ
<1>6. ASSUME NEW f \in Fetchers, PostComment(f) PROVE Steps
  BY <1>2, <1>4, <1>6 DEF PostComment
<1>7. ASSUME NEW f \in Fetchers, CallNeverReturns(f) \/ ErrorEndsThread(f) \/ Kill(f) PROVE Steps
  BY <1>2, <1>7 DEF CallNeverReturns, ErrorEndsThread, Kill
<1>8. ASSUME NEW f \in Fetchers, Start(f) \/ Run(f) PROVE Steps
  BY <1>1, <1>5, <1>6, <1>8
     DEF Start, Run, FetchList, PageMissing, PageParsed, CommentsParsed, GetFails,
         StartSave, RecentDone, TopDone, PassDone, Sleep
<1>9. ASSUME LateDzArrives PROVE Steps
  BY <1>9 DEF LateDzArrives
<1>10. ASSUME LateCommentArrives PROVE Steps
  BY <1>10 DEF LateCommentArrives
<1>11. ASSUME Heal PROVE Steps
  BY <1>1, <1>11 DEF Heal
<1>12. ASSUME UNCHANGED vars PROVE Steps
  BY <1>1, <1>12 DEF vars
<1> QED
  BY <1>7, <1>8, <1>9, <1>10, <1>11, <1>12 DEF Next

------------------------------------------------------------------------------
(* The local state of the threads.                                         *)

Locals(f) == <<pc[f], listing[f], dzList[f], i[f], j[f], dzId[f]>>

\* Other threads and JAX cannot break what a thread knows: JAX only adds.
LEMMA ThreadFrame ==
  ASSUME NEW f \in Fetchers, ThreadInv(f), UNCHANGED Locals(f),
         dzRows \subseteq dzRows', refused \subseteq refused'
  PROVE  ThreadInv(f)'
  BY DEF ThreadInv, Locals, CurrentDz

\* A thread changes nothing of another thread.
LEMMA OthersKeepLocals ==
  ASSUME TypeOK, NEW f \in Fetchers, NEW g \in Fetchers \ {f},
         Run(f) \/ Start(f) \/ CallNeverReturns(f) \/ ErrorEndsThread(f) \/ Kill(f)
  PROVE  UNCHANGED Locals(g)
<1> USE DEF TypeOK, Locals, localVars, Goto, EndPass, DropLocals
<1>1. CASE FetchList(f) \/ PageMissing(f) \/ PageParsed(f) \/ CommentsParsed(f)
  BY <1>1 DEF FetchList, PageMissing, PageParsed, CommentsParsed
<1>2. CASE GetFails(f) \/ StartSave(f) \/ RecentDone(f) \/ TopDone(f) \/ PassDone(f)
  BY <1>2, ThrowEndsPass DEF GetFails, StartSave, RecentDone, TopDone, PassDone
<1>3. CASE AddDZ(f)
  BY <1>3 DEF AddDZ
<1>4. CASE RetryDZ(f)
  BY <1>4, ThrowEndsPass DEF RetryDZ
<1>5. CASE PostComment(f)
  BY <1>5, ThrowEndsPass DEF PostComment
<1>6. CASE Sleep(f) \/ Start(f) \/ CallNeverReturns(f) \/ ErrorEndsThread(f) \/ Kill(f)
  BY <1>6 DEF Sleep, Start, CallNeverReturns, ErrorEndsThread, Kill
<1> QED
  BY <1>1, <1>2, <1>3, <1>4, <1>5, <1>6 DEF Run

\* What a thread's own step leaves behind.
LEMMA OwnStepThreadInv ==
  ASSUME TypeOK, TypeOK', NEW f \in Fetchers, ThreadInv(f), [Next]_vars,
         Run(f) \/ Start(f) \/ CallNeverReturns(f) \/ ErrorEndsThread(f) \/ Kill(f)
  PROVE  ThreadInv(f)'
<1> USE DEF ThreadInv, Goto, localVars
<1>0. dzRows \subseteq dzRows' /\ refused \subseteq refused'
  BY StepOfJax
<1>1. CASE FetchList(f)
  BY <1>1 DEF FetchList, TypeOK
<1>2. CASE PageMissing(f) \/ PageParsed(f) \/ StartSave(f)
  BY <1>2 DEF PageMissing, PageParsed, StartSave, AtListEnd, TypeOK
<1>3. CASE CommentsParsed(f)
  <2>1. listing[f][i[f]] \in DZs
    BY <1>3 DEF TypeOK, CommentsParsed
  <2>2. PICK p \in CommentPages[listing[f][i[f]]] :
          dzList' = [dzList EXCEPT ![f] = Append(@,
            [dz |-> listing[f][i[f]], recent |-> p.recent, top |-> p.top])]
    BY <1>3 DEF CommentsParsed
  <2>3. /\ p.recent \in Seq(OwnComments(listing[f][i[f]]))
        /\ p.top \in Seq(OwnComments(listing[f][i[f]]))
    BY <2>1, SiteAssumption
  <2>4. dzList'[f] = Append(dzList[f],
          [dz |-> listing[f][i[f]], recent |-> p.recent, top |-> p.top])
    BY <2>2 DEF TypeOK
  <2>5. dzList[f] \in Seq(Record) /\ pc'[f] = "page"
    BY <1>3 DEF TypeOK, CommentsParsed
  <2>6. ASSUME NEW k \in DOMAIN dzList'[f]
        PROVE  /\ dzList'[f][k].recent \in Seq(OwnComments(dzList'[f][k].dz))
               /\ dzList'[f][k].top \in Seq(OwnComments(dzList'[f][k].dz))
    <3>1. CASE k \in DOMAIN dzList[f]
      <4>1. dzList'[f][k] = dzList[f][k]
        BY <2>4, <2>5, <3>1
      <4> QED
        BY <3>1, <4>1
    <3>2. CASE k \notin DOMAIN dzList[f]
      <4>1. k = Len(dzList[f]) + 1
        BY <2>4, <2>5, <3>2
      <4>2. dzList'[f][k] =
              [dz |-> listing[f][i[f]], recent |-> p.recent, top |-> p.top]
        BY <2>4, <2>5, <4>1
      <4> QED
        BY <2>3, <4>2
    <3> QED
      BY <3>1, <3>2
  <2> QED
    BY <2>5, <2>6
<1>4. CASE EndPass(f)
  BY <1>4 DEF EndPass, DropLocals, TypeOK
<1>5. CASE AddDZ(f)
  <2>1. /\ dzList'[f] = dzList[f] /\ i'[f] = i[f] /\ i[f] <= Len(dzList[f])
        /\ CurrentDz(f)' = CurrentDz(f) /\ pc'[f] \in {"recent", "retry"}
    BY <1>5 DEF AddDZ, AtSaveEnd, CurrentDz, TypeOK
  <2>2. \/ pc'[f] = "recent" /\ dzId'[f] = CurrentDz(f) /\ CurrentDz(f) \in dzRows'
        \/ pc'[f] = "recent" /\ dzId'[f] = NoDz /\ CurrentDz(f) \in refused'
        \/ pc'[f] = "retry" /\ dzId'[f] = NoDz
    BY <1>5 DEF AddDZ, TypeOK, JaxGivesId, JaxGivesNoId
  <2> QED
    BY <2>1, <2>2
<1>6. CASE RetryDZ(f) /\ ~EndPass(f)
  <2>1. /\ dzList'[f] = dzList[f] /\ i'[f] = i[f] /\ i[f] <= Len(dzList[f])
        /\ CurrentDz(f)' = CurrentDz(f) /\ pc'[f] = "recent"
    BY <1>6, ThrowEndsPass DEF RetryDZ, CurrentDz, TypeOK
  <2>2. \/ dzId'[f] = CurrentDz(f) /\ CurrentDz(f) \in dzRows'
        \/ dzId'[f] = NoDz /\ CurrentDz(f) \in refused'
    BY <1>6, ThrowEndsPass DEF RetryDZ, TypeOK, JaxGivesId, JaxGivesNoId, JaxGivesCode
  <2> QED
    BY <2>1, <2>2
<1>7. CASE (PostComment(f) /\ ~EndPass(f)) \/ RecentDone(f)
  <2>1. /\ dzList'[f] = dzList[f] /\ i'[f] = i[f] /\ dzId'[f] = dzId[f]
        /\ CurrentDz(f)' = CurrentDz(f)
        /\ pc[f] \in {"recent", "top"} /\ pc'[f] \in {"recent", "top"}
    BY <1>7, ThrowEndsPass DEF PostComment, PostsComment, RecentDone, CurrentDz, TypeOK
  <2> QED
    BY <1>0, <2>1
<1>8. CASE TopDone(f)
  BY <1>8 DEF TopDone, TypeOK
<1>9. CASE Sleep(f) \/ Start(f) \/ CallNeverReturns(f)
  BY <1>9 DEF Sleep, Start, CallNeverReturns, TypeOK
<1>10. CASE ErrorEndsThread(f) \/ Kill(f)
  BY <1>10 DEF ErrorEndsThread, Kill, DropLocals, TypeOK
<1> QED
  BY <1>1, <1>2, <1>3, <1>4, <1>5, <1>6, <1>7, <1>8, <1>9, <1>10, ThrowEndsPass
     DEF Run, PassDone

------------------------------------------------------------------------------
(* The position in the lists, and what JAX answered so far.                *)

PassedAnswered(f) ==
  pc[f] \in SavePCs =>
    \A k \in 1..(i[f] - 1) : k <= Len(dzList[f]) => Answered(dzList[f][k])

LEMMA AnswersLast ==
  ASSUME [Next]_vars
  PROVE  /\ \A c : Done(c) => Done(c)'
         /\ \A rec : Answered(rec) => Answered(rec)'
<1>1. ASSUME NEW c, Done(c) PROVE Done(c)'
  BY <1>1, StepOfJax DEF Done, Stored
<1>2. ASSUME NEW rec, Answered(rec) PROVE Answered(rec)'
  BY <1>1, <1>2, StepOfJax DEF Answered
<1> QED
  BY <1>1, <1>2

LEMMA ProgressFrame ==
  ASSUME [Next]_vars, NEW f \in Fetchers, Progress(f), PassedAnswered(f),
         UNCHANGED Locals(f)
  PROVE  Progress(f)' /\ PassedAnswered(f)'
<1>1. Progress(f)'
  BY AnswersLast DEF Progress, Locals
<1>2. PassedAnswered(f)'
  BY AnswersLast DEF PassedAnswered, Locals
<1> QED
  BY <1>1, <1>2

LEMMA PostCommentProgress ==
  ASSUME TypeOK, NEW f \in Fetchers, ThreadInv(f), Progress(f),
         PassedAnswered(f), [Next]_vars, PostComment(f), ~EndPass(f)
  PROVE  Progress(f)' /\ PassedAnswered(f)'
<1> PICK n \in Nat \ {0} : n = j[f]
  BY DEF TypeOK
<1> PICK rec : rec = dzList[f][i[f]]
  OBVIOUS
<1>1. /\ n = j[f] /\ rec = dzList[f][i[f]] /\ rec = dzList'[f][i'[f]]
      /\ pc'[f] = pc[f] /\ dzList'[f] = dzList[f] /\ i'[f] = i[f]
      /\ j'[f] = n + 1 /\ pc[f] \in {"recent", "top"}
  BY ThrowEndsPass DEF PostComment, PostsComment, TypeOK
<1>2. PassedAnswered(f)'
  BY <1>1, AnswersLast DEF PassedAnswered
<1>3. \/ \E r \in commentRows' : r.comment = CurrentComments(f)[n]
      \/ CurrentComments(f)[n] \in refused'
  <2>1. CurrentRow(f).comment = CurrentComments(f)[n]
    BY <1>1 DEF CurrentRow
  <2>2. CASE JaxTakesComment(CurrentRow(f))
    <3>1. Stored(CurrentComments(f)[n]) \/ CurrentRow(f) \in commentRows'
      BY <2>1, <2>2 DEF JaxTakesComment
    <3>2. commentRows \subseteq commentRows'
      BY StepOfJax
    <3> QED
      BY <2>1, <3>1, <3>2 DEF Stored
  <2>3. CASE JaxRefusesComment(CurrentRow(f).comment)
    BY <2>1, <2>3 DEF JaxRefusesComment
  <2> QED
    BY <2>2, <2>3, ThrowEndsPass DEF PostComment
<1>4. \A c : c = CurrentComments(f)[n] => Done(c)'
  BY <1>3 DEF Done, Stored
<1>5. CASE pc[f] = "recent"
  <2>1. ASSUME NEW k \in 1..n, k \in DOMAIN rec.recent PROVE Done(rec.recent[k])'
    <3>1. CASE k = n
      BY <1>1, <1>4, <1>5, <3>1 DEF CurrentComments
    <3>2. CASE k # n
      <4>1. k \in 1..(j[f] - 1)
        BY <1>1, <2>1, <3>2
      <4> QED
        BY <1>1, <1>5, <2>1, <4>1, AnswersLast DEF Progress
    <3> QED
      BY <3>1, <3>2
  <2> QED
    BY <1>1, <1>2, <1>5, <2>1 DEF Progress
<1>6. CASE pc[f] = "top"
  <2>1. ASSUME NEW k \in 1..n, k \in DOMAIN rec.top PROVE Done(rec.top[k])'
    <3>1. CASE k = n
      BY <1>1, <1>4, <1>6, <3>1 DEF CurrentComments
    <3>2. CASE k # n
      <4>1. k \in 1..(j[f] - 1)
        BY <1>1, <2>1, <3>2
      <4> QED
        BY <1>1, <1>6, <2>1, <4>1, AnswersLast DEF Progress
    <3> QED
      BY <3>1, <3>2
  <2>2. \A k \in DOMAIN rec.recent : Done(rec.recent[k])'
    BY <1>1, <1>6, AnswersLast DEF Progress
  <2> QED
    BY <1>1, <1>2, <1>6, <2>1, <2>2 DEF Progress
<1> QED
  BY <1>1, <1>5, <1>6

LEMMA LoopEndsProgress ==
  ASSUME TypeOK, NEW f \in Fetchers, ThreadInv(f), Progress(f),
         PassedAnswered(f), [Next]_vars, RecentDone(f) \/ TopDone(f)
  PROVE  Progress(f)' /\ PassedAnswered(f)'
<1>a. i[f] \in DOMAIN dzList[f] /\ i[f] \in Nat \ {0}
  BY DEF TypeOK, ThreadInv, RecentDone, TopDone
<1>b. dzList[f][i[f]] \in Record
  BY <1>a DEF TypeOK
<1> PICK n \in Nat \ {0}, rec \in Record : n = i[f] /\ rec = dzList[f][i[f]]
  BY <1>a, <1>b
<1>0. n = i[f] /\ rec = dzList[f][i[f]] /\ j[f] \in Nat \ {0}
  BY DEF TypeOK
<1>1. CASE RecentDone(f)
  <2>1. /\ pc[f] = "recent" /\ pc'[f] = "top" /\ j'[f] = 1
        /\ dzList'[f] = dzList[f] /\ i'[f] = i[f]
    BY <1>1 DEF RecentDone, Goto, TypeOK
  <2>2. \A k \in DOMAIN rec.recent : k \in 1..(j[f] - 1)
    BY <1>0, <1>1 DEF RecentDone, CurrentComments, Record
  <2>3. \A k \in DOMAIN rec.recent : Done(rec.recent[k])'
    BY <1>0, <2>1, <2>2, AnswersLast DEF Progress
  <2>4. Progress(f)'
    BY <1>0, <2>1, <2>3 DEF Progress
  <2>5. PassedAnswered(f)'
    BY <2>1, AnswersLast DEF PassedAnswered, SavePCs
  <2> QED
    BY <2>4, <2>5
<1>2. CASE TopDone(f)
  <2>1. /\ pc[f] = "top" /\ pc'[f] = "addDZ" /\ j'[f] = 1
        /\ dzList'[f] = dzList[f] /\ i'[f] = n + 1
    BY <1>0, <1>2 DEF TopDone, Goto, TypeOK
  <2>2. \A k \in DOMAIN rec.top : k \in 1..(j[f] - 1)
    BY <1>0, <1>2 DEF TopDone, CurrentComments, Record
  <2>3. /\ \A k \in DOMAIN rec.recent : Done(rec.recent[k])
        /\ \A k \in DOMAIN rec.top : Done(rec.top[k])
    BY <1>0, <2>1, <2>2 DEF Progress
  <2>4. rec.dz \in dzRows \cup refused
    BY <1>0, <2>1 DEF ThreadInv, CurrentDz
  <2>5. Answered(rec)
    BY <2>3, <2>4 DEF Answered, ToSet
  <2>6. ASSUME NEW k \in 1..n, k <= Len(dzList[f]), NEW r, r = dzList[f][k]
        PROVE  Answered(r)'
    <3>1. CASE k = n
      BY <1>0, <2>5, <2>6, <3>1, AnswersLast
    <3>2. CASE k # n
      <4>1. k \in 1..(i[f] - 1)
        BY <1>0, <2>6, <3>2
      <4> QED
        BY <2>1, <2>6, <4>1, AnswersLast DEF PassedAnswered, SavePCs
    <3> QED
      BY <3>1, <3>2
  <2>7. Progress(f)'
    BY <2>1 DEF Progress
  <2> QED
    BY <2>1, <2>6, <2>7 DEF PassedAnswered
<1> QED
  BY <1>1, <1>2

LEMMA OwnStepProgress ==
  ASSUME TypeOK, NEW f \in Fetchers, ThreadInv(f), Progress(f),
         PassedAnswered(f), [Next]_vars,
         Run(f) \/ Start(f) \/ CallNeverReturns(f) \/ ErrorEndsThread(f) \/ Kill(f)
  PROVE  Progress(f)' /\ PassedAnswered(f)'
<1> USE DEF Goto, localVars
<1>1. CASE FetchList(f) \/ PageMissing(f) \/ PageParsed(f) \/ CommentsParsed(f)
           \/ Sleep(f) \/ Start(f)
  BY <1>1 DEF Progress, PassedAnswered, SavePCs, TypeOK, FetchList, PageMissing,
              PageParsed, CommentsParsed, Sleep, Start
<1>2. CASE StartSave(f)
  BY <1>2 DEF Progress, PassedAnswered, SavePCs, TypeOK, StartSave, AtListEnd
<1>3. CASE EndPass(f)
  BY <1>3 DEF Progress, PassedAnswered, SavePCs, TypeOK, EndPass, DropLocals
<1>4. CASE AddDZ(f) \/ (RetryDZ(f) /\ ~EndPass(f))
  <2>1. /\ pc[f] \in {"addDZ", "retry"} /\ pc'[f] \in {"retry", "recent"}
        /\ j'[f] = j[f] /\ i'[f] = i[f] /\ dzList'[f] = dzList[f]
    BY <1>4, ThrowEndsPass DEF AddDZ, RetryDZ, TypeOK
  <2>2. Progress(f)'
    BY <2>1 DEF Progress
  <2>3. PassedAnswered(f)'
    BY <2>1, AnswersLast DEF PassedAnswered, SavePCs
  <2> QED
    BY <2>2, <2>3
<1>5. CASE PostComment(f) /\ ~EndPass(f)
  BY <1>5, PostCommentProgress
<1>6. CASE RecentDone(f) \/ TopDone(f)
  BY <1>6, LoopEndsProgress
<1>7. CASE CallNeverReturns(f)
  BY <1>7 DEF Progress, PassedAnswered, SavePCs, TypeOK, CallNeverReturns
<1>8. CASE ErrorEndsThread(f) \/ Kill(f)
  BY <1>8 DEF Progress, PassedAnswered, SavePCs, TypeOK, ErrorEndsThread, Kill, DropLocals
<1> QED
  BY <1>1, <1>2, <1>3, <1>4, <1>5, <1>6, <1>7, <1>8, ThrowEndsPass
     DEF Run, PassDone

------------------------------------------------------------------------------
(* The inductive invariant.                                                *)

LEMMA InitIInv == Init => IInv
<1> SUFFICES ASSUME Init PROVE IInv
  OBVIOUS
<1>1. TypeOK
  BY InitTypeOK
<1>2. \A f \in Fetchers : ThreadInv(f) /\ Progress(f)
  BY DEF Init, ThreadInv, Progress
<1>3. RowsMatchSite /\ OrphanOnlyAfterRefusal /\ NothingSkipped
  BY DEF Init, RowsMatchSite, OrphanOnlyAfterRefusal, NothingSkipped, SavePCs
<1> QED
  BY <1>1, <1>2, <1>3 DEF IInv

\* A row is made of what the thread knows of the record it is at.
LEMMA PostedRow ==
  ASSUME IInv, NEW f \in Fetchers, PostsComment(f)
  PROVE  /\ GoodParent(CurrentRow(f))
         /\ CurrentRow(f).parent = NoDz => Owner[CurrentRow(f).comment] \in refused
<1>1. PICK rec \in Record : rec = dzList[f][i[f]]
  <2>1. i[f] \in DOMAIN dzList[f]
    BY DEF IInv, TypeOK, ThreadInv, PostsComment
  <2> QED
    BY <2>1 DEF IInv, TypeOK
<1>2. rec.recent \in Seq(OwnComments(rec.dz)) /\ rec.top \in Seq(OwnComments(rec.dz))
  BY <1>1 DEF IInv, TypeOK, ThreadInv, PostsComment
<1>3. CurrentComments(f) \in Seq(OwnComments(rec.dz))
  BY <1>1, <1>2 DEF CurrentComments
<1>4. CurrentComments(f)[j[f]] \in OwnComments(rec.dz)
  BY <1>3 DEF IInv, TypeOK, PostsComment
<1>5. Owner[CurrentRow(f).comment] = rec.dz
  BY <1>4 DEF CurrentRow, OwnComments
<1>6. \/ dzId[f] = rec.dz /\ rec.dz \in dzRows
      \/ dzId[f] = NoDz /\ rec.dz \in refused
  BY <1>1 DEF IInv, ThreadInv, PostsComment, CurrentDz
<1>7. CurrentRow(f).parent = dzId[f] /\ rec.dz # NoDz
  BY NoDzAssumption DEF CurrentRow, Record
<1> QED
  BY <1>5, <1>6, <1>7 DEF GoodParent

LEMMA NextIInv == IInv /\ [Next]_vars => IInv'
<1> SUFFICES ASSUME IInv, [Next]_vars PROVE IInv'
  OBVIOUS
<1>1. TypeOK'
  BY NextTypeOK DEF IInv
<1>2. ASSUME NEW g \in Fetchers
      PROVE  ThreadInv(g)' /\ Progress(g)' /\ PassedAnswered(g)'
  <2>0. TypeOK /\ ThreadInv(g) /\ Progress(g) /\ PassedAnswered(g)
    BY DEF IInv, NothingSkipped, PassedAnswered
  <2>1. CASE UNCHANGED Locals(g)
    BY <2>0, <2>1, StepOfJax, ThreadFrame, ProgressFrame
  <2>2. CASE Run(g) \/ Start(g) \/ CallNeverReturns(g) \/ ErrorEndsThread(g) \/ Kill(g)
    BY <1>1, <2>0, <2>2, OwnStepThreadInv, OwnStepProgress
  <2>3. ASSUME NEW f \in Fetchers \ {g},
               Run(f) \/ Start(f) \/ CallNeverReturns(f) \/ ErrorEndsThread(f) \/ Kill(f)
        PROVE  UNCHANGED Locals(g)
    BY <2>0, <2>3, OthersKeepLocals
  <2>4. LateDzArrives \/ LateCommentArrives \/ Heal \/ UNCHANGED vars
          => UNCHANGED Locals(g)
    BY DEF LateDzArrives, LateCommentArrives, Heal, vars, localVars, Locals
  <2> QED
    BY <2>1, <2>2, <2>3, <2>4 DEF Next
<1>3. RowsMatchSite'
  <2>1. ASSUME NEW row \in commentRows' \cup lateComments' PROVE GoodParent(row)
    BY <2>1, StepOfJax, PostedRow DEF IInv, RowsMatchSite
  <2> QED
    BY <2>1, StepOfJax DEF RowsMatchSite, GoodParent
<1>4. OrphanOnlyAfterRefusal'
  BY StepOfJax, PostedRow DEF IInv, OrphanOnlyAfterRefusal
<1>5. NothingSkipped'
  BY <1>2 DEF NothingSkipped, PassedAnswered
<1> QED
  BY <1>1, <1>2, <1>3, <1>4, <1>5 DEF IInv

\* The strengthened invariant holds in every reachable state of save, retry,
\* kill and late delivery.
THEOREM Invariance == Spec => []IInv
  BY InitIInv, NextIInv, PTL DEF Spec

\* Type correctness of NHDZFetcher's threads and of JAX's tables.
THEOREM TypeCorrect == Spec => []TypeOK
<1>1. IInv => TypeOK
  BY DEF IInv
<1> QED
  BY <1>1, Invariance, PTL

\* save never files a comment under the dz of another record, nor before JAX
\* has the dz: the fresh dzId of every iteration is what guarantees it.
THEOREM RowsAlwaysMatchSite == Spec => []RowsMatchSite
<1>1. IInv => RowsMatchSite
  BY DEF IInv
<1> QED
  BY <1>1, Invariance, PTL

\* save uses dz id 0 only after an answer without an id: its retry lets every
\* failure of the transport end the pass.
THEOREM OrphansAreRefused == Spec => []OrphanOnlyAfterRefusal
<1>1. IInv => OrphanOnlyAfterRefusal
  BY DEF IInv
<1> QED
  BY <1>1, Invariance, PTL

\* save goes past a dz or a comment only with JAX's answer to it.
THEOREM SkipsNothing == Spec => []NothingSkipped
<1>1. IInv => NothingSkipped
  BY DEF IInv
<1> QED
  BY <1>1, Invariance, PTL

------------------------------------------------------------------------------
(* NHDZFetcher implements ImportedStore.                                   *)

\* One step stores one dz, or one comment row nobody stored, or nothing.
LEMMA OneRowAtATime ==
  ASSUME IInv, [Next]_vars
  PROVE  \/ UNCHANGED <<dzRows, commentRows>>
         \/ /\ UNCHANGED commentRows
            /\ \E d \in DZs : dzRows' = dzRows \cup {d}
         \/ /\ UNCHANGED dzRows
            /\ \E row \in CommentRow :
                 /\ GoodParent(row) /\ ~Stored(row.comment)
                 /\ commentRows' = commentRows \cup {row}
<1> DEFINE OneRow ==
      \/ UNCHANGED <<dzRows, commentRows>>
      \/ /\ UNCHANGED commentRows
         /\ \E d \in DZs : dzRows' = dzRows \cup {d}
      \/ /\ UNCHANGED dzRows
         /\ \E row \in CommentRow :
              /\ GoodParent(row) /\ ~Stored(row.comment)
              /\ commentRows' = commentRows \cup {row}
<1>1. ASSUME NEW f \in Fetchers, NoAnswer(f) PROVE OneRow
  BY <1>1 DEF NoAnswer
<1>2. ASSUME NEW f \in Fetchers, AddDZ(f) \/ RetryDZ(f) PROVE OneRow
  <2>1. CurrentDz(f) \in DZs
    BY <1>2, PostedTypeOK DEF IInv, AddDZ, RetryDZ, PostsDz, AtSaveEnd
  <2>2. CASE JaxGivesId(CurrentDz(f)) \/ JaxGivesNoId(CurrentDz(f))
    BY <2>1, <2>2 DEF JaxGivesId, JaxGivesNoId
  <2>3. CASE JaxGivesCode(CurrentDz(f)) \/ NoAnswer(f)
    BY <2>3 DEF JaxGivesCode, NoAnswer
  <2> QED
    BY <1>2, <2>2, <2>3 DEF AddDZ, RetryDZ
<1>3. ASSUME NEW f \in Fetchers, PostComment(f) PROVE OneRow
  <2>1. CurrentRow(f) \in CommentRow /\ GoodParent(CurrentRow(f))
    BY <1>3, PostedTypeOK, PostedRow DEF IInv, PostComment
  <2>2. CASE JaxTakesComment(CurrentRow(f))
    BY <2>1, <2>2 DEF JaxTakesComment
  <2>3. CASE JaxRefusesComment(CurrentRow(f).comment) \/ NoAnswer(f)
    BY <2>3 DEF JaxRefusesComment, NoAnswer
  <2> QED
    BY <1>3, <2>2, <2>3 DEF PostComment
<1>4. ASSUME NEW f \in Fetchers, CallNeverReturns(f) \/ ErrorEndsThread(f) \/ Kill(f) PROVE OneRow
  BY <1>1, <1>4 DEF CallNeverReturns, ErrorEndsThread, Kill
<1>5. ASSUME NEW f \in Fetchers, Start(f) \/ Run(f) PROVE OneRow
  BY <1>2, <1>3, <1>5
     DEF Start, Run, FetchList, PageMissing, PageParsed, CommentsParsed, GetFails,
         StartSave, RecentDone, TopDone, PassDone, Sleep, jaxVars
<1>6. ASSUME LateDzArrives PROVE OneRow
  BY <1>6 DEF LateDzArrives, IInv, TypeOK
<1>7. ASSUME LateCommentArrives PROVE OneRow
  BY <1>7 DEF LateCommentArrives, IInv, TypeOK, RowsMatchSite
<1>8. ASSUME Heal \/ UNCHANGED vars PROVE OneRow
  BY <1>8 DEF Heal, vars, jaxVars
<1> QED
  BY <1>4, <1>5, <1>6, <1>7, <1>8 DEF Next

LEMMA StepImplementsStore == IInv /\ [Next]_vars => [Store!Next]_(Store!vars)
<1> SUFFICES ASSUME IInv, [Next]_vars PROVE [Store!Next]_(Store!vars)
  OBVIOUS
<1>1. CASE UNCHANGED <<dzRows, commentRows>>
  BY <1>1 DEF Store!vars
<1>2. ASSUME UNCHANGED commentRows, NEW d \in DZs, dzRows' = dzRows \cup {d}
      PROVE  [Store!Next]_(Store!vars)
  <2>1. CASE d \in dzRows
    BY <1>2, <2>1 DEF Store!vars
  <2>2. CASE d \notin dzRows
    BY <1>2, <2>2 DEF Store!Next, Store!StoreDz
  <2> QED
    BY <2>1, <2>2
<1>3. ASSUME UNCHANGED dzRows, NEW row \in CommentRow, GoodParent(row),
             ~Stored(row.comment), commentRows' = commentRows \cup {row}
      PROVE  Store!Next
  <2>1. Store!StoreComment(row)
    BY <1>3 DEF Store!StoreComment, GoodParent, Stored
  <2>2. row \in Store!CommentRow
    BY DEF CommentRow, Store!CommentRow
  <2> QED
    BY <2>1, <2>2 DEF Store!Next
<1> QED
  BY <1>1, <1>2, <1>3, OneRowAtATime

\* Whatever fails, is killed or arrives late, JAX's tables only ever change as
\* ImportedStore allows: one new row at a time, under the right dz or none.
THEOREM ImplementsStore == Spec => StoreSpec
<1>1. Init => Store!Init
  BY DEF Init, Store!Init
<1> QED
  BY <1>1, Invariance, StepImplementsStore, PTL DEF Spec, StoreSpec, Store!Spec
=============================================================================
