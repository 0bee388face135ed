--------------------------- MODULE UserFetchProofs ---------------------------
(* What holds of the tmp directory of UserFetch, and of the users that are    *)
(* served, for every number of requests, every clock and every spread of the  *)
(* random numbers.                                                            *)
EXTENDS UserFetch, FiniteSetTheorems, WellFoundedInduction, TLAPS

\* No step changes the shape of the files and the names.
LEMMA ShapeStep ==
  ASSUME ShapeOK, \A r \in Requests : OwnFile(r), [Next]_vars
  PROVE  ShapeOK'
<1> USE DEF ShapeOK, PCs, Goto, threadVars
<1>1. ASSUME NEW r \in Requests, Dispatch(r) PROVE ShapeOK'
  BY <1>1 DEF Dispatch
<1>2. ASSUME NEW r \in Requests, BadRequest(r) \/ PageFails(r) \/ SaveFails(r) \/ PostFails(r)
      PROVE  ShapeOK'
  BY <1>2 DEF BadRequest, PageFails, SaveFails, PostFails, Fail, Answer
<1>3. ASSUME NEW r \in Requests, Respond(r) PROVE ShapeOK'
  BY <1>3 DEF Respond, Answer
<1>4. ASSUME NEW r \in Requests, SkipUser(r) \/ FindUser(r) \/ CallNeverReturns(r)
      PROVE  ShapeOK'
  BY <1>4 DEF SkipUser, FindUser, CallNeverReturns
<1>5. ASSUME NEW r \in Requests, DrawName(r) PROVE ShapeOK'
  BY <1>5, ClockAssumption DEF DrawName, Names
<1>6. ASSUME NEW r \in Requests, OpenFile(r) PROVE ShapeOK'
  BY <1>6 DEF OpenFile
<1>7. ASSUME NEW r \in Requests, WriteFile(r) PROVE ShapeOK'
  BY <1>7 DEF WriteFile
<1>8. ASSUME NEW r \in Requests, PostFile(r) PROVE ShapeOK'
  BY <1>8 DEF PostFile
<1>9. ASSUME NEW r \in Requests, CleanTmpFile(r) PROVE ShapeOK'
  BY <1>9 DEF CleanTmpFile
<1>10. CASE Tick
  BY <1>10, ClockAssumption DEF Tick
<1>11. CASE Restart
  BY <1>11 DEF Restart
<1>12. CASE UNCHANGED vars
  BY <1>12 DEF vars
<1> QED
  BY <1>1, <1>2, <1>3, <1>4, <1>5, <1>6, <1>7, <1>8, <1>9, <1>10, <1>11, <1>12
     DEF Next, Run

\* Names are only ever added to what a request drew.
LEMMA DrawnGrows ==
  ASSUME ShapeOK, [Next]_vars
  PROVE  \A q \in Requests : drawn[q] \subseteq drawn'[q]
<1>1. ASSUME NEW r \in Requests, DrawName(r)
      PROVE  \A q \in Requests : drawn[q] \subseteq drawn'[q]
  BY <1>1 DEF DrawName, ShapeOK
<1> QED
  BY <1>1 DEF Next, Run, Dispatch, BadRequest, PageFails, SaveFails, PostFails, Respond,
     SkipUser, FindUser, CallNeverReturns, OpenFile, WriteFile, PostFile, CleanTmpFile,
     Tick, Restart, vars

\* A step of a request, on its own file.
LEMMA OwnStep ==
  ASSUME ShapeOK, NEW r \in Requests, OwnFile(r), [Next]_vars, CollisionFree(r)' => CollisionFree(r),
         Dispatch(r) \/ BadRequest(r) \/ Run(r) \/ CallNeverReturns(r)
  PROVE  OwnFile(r)'
<1> USE DEF ShapeOK, OwnFile, Goto
<1>1. CASE Dispatch(r) \/ SkipUser(r) \/ FindUser(r) \/ CallNeverReturns(r)
  BY <1>1 DEF Dispatch, SkipUser, FindUser, CallNeverReturns
<1>2. CASE BadRequest(r) \/ PageFails(r) \/ SaveFails(r) \/ PostFails(r) \/ Respond(r)
  BY <1>2 DEF BadRequest, PageFails, SaveFails, PostFails, Respond, Fail, Answer
<1>3. CASE DrawName(r)
  BY <1>3, ClockAssumption DEF DrawName, Names
<1>4. CASE OpenFile(r)
  BY <1>4 DEF OpenFile
<1>5. CASE WriteFile(r)
  <2>1. PICK own \in BOOLEAN :
          tmp' = IF linked[r]
                 THEN [tmp EXCEPT ![file[r]] = @ \cup {[of |-> id[r], own |-> own]}]
                 ELSE tmp
    BY <1>5 DEF WriteFile
  <2>2. pc'[r] = "post" /\ pc[r] = "write" /\ UNCHANGED <<id, file, drawn>>
    BY <1>5 DEF WriteFile
  <2>3. CollisionFree(r) => tmp'[file[r]] = {[of |-> id[r], own |-> own]}
    BY <2>1, <2>2
  <2> QED
    BY <2>2, <2>3 DEF AnswerFor
<1>6. CASE PostFile(r)
  BY <1>6 DEF PostFile
<1>7. CASE CleanTmpFile(r)
  BY <1>7 DEF CleanTmpFile
<1> QED
  BY <1>1, <1>2, <1>3, <1>4, <1>5, <1>6, <1>7 DEF Run

\* A step of another request: it works on a file of its own name.
LEMMA OthersStep ==
  ASSUME ShapeOK, NEW q \in Requests, NEW r \in Requests \ {q}, OwnFile(q), OwnFile(r),
         CollisionFree(r)' => CollisionFree(r),
         Dispatch(q) \/ BadRequest(q) \/ Run(q) \/ CallNeverReturns(q)
  PROVE  OwnFile(r)'
<1> USE DEF ShapeOK, OwnFile, Goto
<1>1. CASE Dispatch(q) \/ SkipUser(q) \/ FindUser(q) \/ CallNeverReturns(q)
  BY <1>1 DEF Dispatch, SkipUser, FindUser, CallNeverReturns
<1>2. CASE BadRequest(q) \/ PageFails(q) \/ SaveFails(q) \/ PostFails(q) \/ Respond(q)
  BY <1>2 DEF BadRequest, PageFails, SaveFails, PostFails, Respond, Fail, Answer
<1>3. CASE DrawName(q)
  BY <1>3, ClockAssumption DEF DrawName, Names
<1>4. CollisionFree(r) /\ file[q] \in drawn[q] /\ file[r] \in drawn[r] => file[q] # file[r]
  BY DEF CollisionFree
<1>5. CASE OpenFile(q)
  BY <1>4, <1>5 DEF OpenFile
<1>6. CASE WriteFile(q)
  BY <1>4, <1>6 DEF WriteFile
<1>7. CASE PostFile(q)
  BY <1>7 DEF PostFile
<1>8. CASE CleanTmpFile(q)
  BY <1>4, <1>8 DEF CleanTmpFile
<1> QED
  BY <1>1, <1>2, <1>3, <1>5, <1>6, <1>7, <1>8 DEF Run

\* The clock and a restart of the JVM.
LEMMA MachineStep ==
  ASSUME ShapeOK, NEW r \in Requests, OwnFile(r), Tick \/ Restart \/ UNCHANGED vars
  PROVE  OwnFile(r)'
<1>1. CASE Tick \/ UNCHANGED vars
  BY <1>1 DEF Tick, vars, threadVars, OwnFile, CollisionFree
<1>2. CASE Restart
  BY <1>2 DEF Restart, OwnFile, ShapeOK
<1> QED
  BY <1>1, <1>2

\* Who registers a user sends what his file holds.
LEMMA RegisterStep ==
  ASSUME [Next]_vars
  PROVE  \A u \in users' :
           \/ u \in users
           \/ \E r \in Requests :
                /\ pc[r] = "post"
                /\ u = [req |-> r, user |-> id[r], portrait |-> tmp[file[r]]]
  BY DEF Next, Run, Dispatch, BadRequest, PageFails, SaveFails, PostFails, Respond, Fail,
     SkipUser, FindUser, CallNeverReturns, DrawName, OpenFile, WriteFile, PostFile,
     CleanTmpFile, Register, Tick, Restart, vars

LEMMA InitPortraitIInv == Init => PortraitIInv
  BY ClockAssumption
     DEF Init, PortraitIInv, ShapeOK, PCs, OwnFile, PortraitFromOwnAnswer

LEMMA NextPortraitIInv == PortraitIInv /\ [Next]_vars => PortraitIInv'
<1> SUFFICES ASSUME PortraitIInv, [Next]_vars PROVE PortraitIInv'
  OBVIOUS
<1>0. ShapeOK /\ \A r \in Requests : OwnFile(r)
  BY DEF PortraitIInv
<1>1. ShapeOK'
  BY <1>0, ShapeStep
<1>2. \A r \in Requests : drawn[r] \subseteq drawn'[r]
  BY <1>0, DrawnGrows
<1>3. ASSUME NEW r \in Requests PROVE OwnFile(r)'
  <2>1. CollisionFree(r)' => CollisionFree(r)
    BY <1>2 DEF CollisionFree
  <2> QED
    BY <1>0, <2>1, OwnStep, OthersStep, MachineStep DEF Next
<1>4. ASSUME NEW u \in users'
      PROVE  /\ u.req \in Requests
             /\ ~AnswerFor(u.user, u.portrait) =>
                  \E q \in Requests \ {u.req} : drawn'[q] \cap drawn'[u.req] # {}
  <2>1. CASE u \in users
    BY <1>2, <2>1 DEF PortraitIInv, PortraitFromOwnAnswer
  <2>2. ASSUME NEW r \in Requests, pc[r] = "post",
               u = [req |-> r, user |-> id[r], portrait |-> tmp[file[r]]]
        PROVE  /\ u.req \in Requests
               /\ ~AnswerFor(u.user, u.portrait) => ~CollisionFree(r)
    BY <1>0, <2>2 DEF OwnFile
  <2>3. ASSUME NEW r \in Requests, ~CollisionFree(r)
        PROVE  \E q \in Requests \ {r} : drawn'[q] \cap drawn'[r] # {}
    BY <1>2, <2>3 DEF CollisionFree
  <2> QED
    BY <2>1, <2>2, <2>3, RegisterStep
<1> QED
  BY <1>1, <1>3, <1>4 DEF PortraitIInv, PortraitFromOwnAnswer

\* userFetch posts for a user the one body that answered the GET of his portrait,
\* unless two requests drew one file name, whatever fails, hangs, overlaps or
\* restarts; it never looks whether the body is a portrait.
THEOREM PortraitsAreAnswers == Spec => []PortraitFromOwnAnswer
<1>1. PortraitIInv => PortraitFromOwnAnswer
  BY DEF PortraitIInv
<1> QED
  BY <1>1, InitPortraitIInv, NextPortraitIInv, PTL DEF Spec

------------------------------------------------------------------------------
(* Types, and the files the threads hold.                                  *)

\* A thread has drawn a name before it opens the file, and the file a stream still
\* writes to is there.
HasFile(r) ==
  /\ pc[r] \in {"open", "write", "post", "clean"} => file[r] \in Names
  /\ pc[r] \in {"idle", "page", "draw", "open"} => ~linked[r]
  /\ linked[r] => file[r] \in Names /\ tmp[file[r]] \in SUBSET Bodies

\* The inductive invariant behind TypeOK.
TypeIInv == TypeOK /\ \A r \in Requests : HasFile(r)

\* The ints are closed under n++.
LEMMA IntsClosed ==
  /\ 0 \in Ints
  /\ \A n \in Ints : Inc(n) \in Ints
  BY IntAssumption DEF Ints, Inc, MinInt, MaxInt

\* Every set of numbers has a least one.
LEMMA LeastNatural ==
  ASSUME NEW S \in SUBSET Nat, S # {}
  PROVE  \E m \in S : \A n \in S : m <= n
<1> DEFINE R == OpToRel(<, Nat)
<1>1. IsWellFoundedOn(R, Nat)
  BY NatLessThanWellFounded
<1> HIDE DEF R
<1>2. PICK m \in S : \A n \in S : <<n, m>> \notin R
  BY <1>1, WFMin
<1>3. \A n \in S : ~(n < m)
  BY <1>2 DEF R, OpToRel
<1> QED
  BY <1>3

\* What dispatch has after field i, if m holds what it had before, and all of that
\* up to field n, as Merged defines it.
LayField(m, q, i) ==
  IF i = 0 THEN q.param
  ELSE IF q.parts[i].field \in {"act", "uid", "args"}
       THEN [m[i - 1] EXCEPT ![q.parts[i].field] = q.parts[i].value]
       ELSE m[i - 1]
Laid(m, q, n) == m = [i \in 0..n |-> LayField(m, q, i)]

\* The args among the first n fields.
GivenArgs(q, n) == {i \in 1..n : q.parts[i].field = "args"}

WantedAfter(q, n) ==
  IF GivenArgs(q, n) = {} THEN q.param.args
  ELSE q.parts[CHOOSE i \in GivenArgs(q, n) : \A k \in GivenArgs(q, n) : k <= i].value

LEMMA LaidExists ==
  ASSUME NEW q
  PROVE  \A n \in Nat : \E m : Laid(m, q, n)
<1> DEFINE Lacking == {n \in Nat : ~\E m : Laid(m, q, n)}
<1> SUFFICES ASSUME Lacking # {} PROVE FALSE
  OBVIOUS
<1>1. PICK n \in Lacking : \A k \in Lacking : n <= k
  BY LeastNatural
<1>2. n # 0
  <2>1. Laid([i \in 0..0 |-> q.param], q, 0)
    BY DEF Laid, LayField
  <2> QED
    BY <2>1
<1>3. PICK m : Laid(m, q, n - 1)
  BY <1>1, <1>2
<1> DEFINE longer == [i \in 0..n |-> IF i = n THEN LayField(m, q, n) ELSE m[i]]
<1>4. ASSUME NEW i \in 0..n PROVE longer[i] = LayField(longer, q, i)
  <2>1. ASSUME i # 0 PROVE longer[i - 1] = m[i - 1]
    BY <2>1
  <2> HIDE DEF longer
  <2>2. LayField(longer, q, i) = LayField(m, q, i)
    BY <2>1 DEF LayField
  <2>3. CASE i = n
    BY <2>2, <2>3 DEF longer
  <2>4. CASE i # n
    <3>1. i \in 0..(n - 1)
      BY <1>1, <1>2, <2>4
    <3>2. m[i] = LayField(m, q, i)
      BY <1>3, <3>1 DEF Laid
    <3>3. longer[i] = m[i]
      BY <2>4 DEF longer
    <3> QED
      BY <2>2, <3>2, <3>3
  <2> QED
    BY <2>3, <2>4
<1>5. longer = [i \in 0..n |-> LayField(longer, q, i)]
  <2>1. longer = [i \in 0..n |-> longer[i]]
    OBVIOUS
  <2> HIDE DEF longer
  <2> QED
    BY <1>4, <2>1
<1> QED
  BY <1>1, <1>5 DEF Laid

LEMMA MergedIsLaid ==
  ASSUME NEW q \in Asks
  PROVE  /\ Len(q.parts) \in Nat
         /\ \E m : Laid(m, q, Len(q.parts)) /\ Merged(q) = m[Len(q.parts)]
<1>1. Len(q.parts) \in Nat
  BY AsksAssumption
<1>2. \E m : Laid(m, q, Len(q.parts))
  BY <1>1, LaidExists
<1> QED
  BY <1>1, <1>2, Zenon DEF Merged, Laid, LayField

\* One field more.
LEMMA WantedStep ==
  ASSUME NEW q \in Asks, NEW n \in Nat \ {0}
  PROVE  WantedAfter(q, n) =
           IF q.parts[n].field = "args" THEN q.parts[n].value ELSE WantedAfter(q, n - 1)
<1>1. CASE q.parts[n].field = "args"
  <2>1. n \in GivenArgs(q, n) /\ \A k \in GivenArgs(q, n) : k \in Nat /\ k <= n
    BY <1>1 DEF GivenArgs
  <2>2. \A i \in GivenArgs(q, n) : (\A k \in GivenArgs(q, n) : k <= i) => i = n
    BY <2>1
  <2>3. (CHOOSE i \in GivenArgs(q, n) : \A k \in GivenArgs(q, n) : k <= i) = n
    BY <2>1, <2>2
  <2> QED
    BY <1>1, <2>1, <2>3 DEF WantedAfter
<1>2. CASE q.parts[n].field # "args"
  <2>1. GivenArgs(q, n) = GivenArgs(q, n - 1)
    BY <1>2 DEF GivenArgs
  <2> QED
    BY <1>2, <2>1 DEF WantedAfter
<1> QED
  BY <1>1, <1>2

\* What dispatch goes on with are the args of the last field that has some.
LEMMA MergedArgs ==
  ASSUME NEW q \in Asks
  PROVE  Merged(q).args \in Ranges \cup {None} /\ Merged(q).args = Wanted(q)
<1> DEFINE N == Len(q.parts)
<1>1. PICK m : Laid(m, q, N) /\ Merged(q) = m[N]
  BY MergedIsLaid
<1>2. N \in Nat
  BY MergedIsLaid
<1>3. \A i \in 1..N : q.parts[i].field = "args" => q.parts[i].value \in Ranges \cup {None}
  BY AsksAssumption DEF Fields
<1> HIDE DEF N
<1> DEFINE Good(k) ==
      /\ DOMAIN m[k] = {"act", "uid", "args"}
      /\ m[k].args \in Ranges \cup {None}
      /\ m[k].args = WantedAfter(q, k)
    Bad == {k \in Nat : k <= N /\ ~Good(k)}
<1>4. Good(0)
  <2>1. m[0] = q.param
    BY <1>1, <1>2 DEF Laid, LayField
  <2>2. GivenArgs(q, 0) = {}
    BY DEF GivenArgs
  <2>3. q.param \in [act : STRING, uid : {"absent", "int", "bad"}, args : Ranges \cup {None}]
    BY AsksAssumption
  <2>4. DOMAIN q.param = {"act", "uid", "args"} /\ q.param.args \in Ranges \cup {None}
    BY <2>3
  <2> QED
    BY <2>1, <2>2, <2>4 DEF WantedAfter
<1>5. ASSUME NEW k \in 1..N, Good(k - 1) PROVE Good(k)
  <2>0. m[k] = LayField(m, q, k)
    BY <1>1, <1>2 DEF Laid
  <2>1. m[k] = IF q.parts[k].field \in {"act", "uid", "args"}
               THEN [m[k - 1] EXCEPT ![q.parts[k].field] = q.parts[k].value]
               ELSE m[k - 1]
    BY <2>0 DEF LayField
  <2>2. WantedAfter(q, k) =
          IF q.parts[k].field = "args" THEN q.parts[k].value ELSE WantedAfter(q, k - 1)
    BY <1>2, WantedStep
  <2>3. CASE q.parts[k].field = "args"
    <3>1. m[k] = [m[k - 1] EXCEPT !["args"] = q.parts[k].value]
      BY <2>1, <2>3
    <3>2. DOMAIN m[k] = {"act", "uid", "args"} /\ m[k].args = q.parts[k].value
      BY <1>5, <3>1
    <3> QED
      BY <1>3, <2>2, <2>3, <3>2
  <2>4. CASE q.parts[k].field # "args"
    BY <1>5, <2>1, <2>2, <2>4
  <2> QED
    BY <2>3, <2>4
<1>6. Good(N)
  <2> SUFFICES ASSUME ~Good(N) PROVE FALSE
    OBVIOUS
  <2> HIDE DEF Good
  <2>0. N \in Bad /\ Bad \subseteq Nat
    BY <1>2
  <2>1. PICK k \in Bad : \A h \in Bad : k <= h
    BY <2>0, LeastNatural
  <2>2. k # 0 /\ Good(k - 1)
    BY <1>2, <1>4, <2>1
  <2> QED
    BY <1>2, <1>5, <2>1, <2>2
<1>7. Wanted(q) = WantedAfter(q, N)
  BY DEF Wanted, WantedAfter, GivenArgs, N
<1> QED
  BY <1>1, <1>6, <1>7

LEMMA AskedIsTyped ==
  ASSUME NEW q \in Asks, WellFormed(q)
  PROVE  Merged(q).args \in Ranges
  BY MergedArgs DEF WellFormed

LEMMA AnswerIsTyped ==
  ASSUME TypeOK, NEW r \in Requests, NEW a \in Answers, Answer(r, a)
  PROVE  pc' \in [Requests -> PCs] /\ answer' \in [Requests -> Answers]
  BY DEF TypeOK, Answer, Goto, PCs, Answers

\* Types: one step per action.
LEMMA TypeStep ==
  ASSUME TypeIInv, [Next]_vars
  PROVE  TypeOK'
<1> USE DEF TypeIInv
<1>1. ASSUME NEW r \in Requests, Dispatch(r) PROVE TypeOK'
  <2>1. PICK q \in Asks :
          /\ WellFormed(q)
          /\ ask' = [ask EXCEPT ![r] = q]
          /\ args' = [args EXCEPT ![r] = Merged(q).args]
          /\ id' = [id EXCEPT ![r] = Merged(q).args.start]
    BY <1>1 DEF Dispatch
  <2>2. Merged(q).args \in Ranges /\ Merged(q).args.start \in Ints
    BY <2>1, AskedIsTyped DEF Ranges
  <2> QED
    BY <1>1, <2>1, <2>2 DEF Dispatch, TypeOK, Goto, PCs
<1>2. ASSUME NEW r \in Requests, NEW a \in Answers, Answer(r, a),
             UNCHANGED <<ask, args, id, count, file, linked, now, inTmpDir, tmp, served, drawn>>,
             users' \subseteq [req : Requests, user : Ints, portrait : SUBSET Bodies]
      PROVE  TypeOK'
  BY <1>2, AnswerIsTyped DEF TypeOK
<1>3. ASSUME NEW r \in Requests, BadRequest(r) \/ PageFails(r) \/ SaveFails(r) PROVE TypeOK'
  BY <1>2, <1>3 DEF BadRequest, PageFails, SaveFails, Fail, Answers, TypeOK
<1>4. ASSUME NEW r \in Requests, Respond(r) PROVE TypeOK'
  BY <1>2, <1>4 DEF Respond, Answers, TypeOK
<1>5. ASSUME NEW r \in Requests, SkipUser(r) \/ FindUser(r) \/ CallNeverReturns(r)
      PROVE  TypeOK'
  BY <1>5, IntsClosed DEF SkipUser, FindUser, CallNeverReturns, TypeOK, Goto, PCs
<1>6. ASSUME NEW r \in Requests, DrawName(r) PROVE TypeOK'
  BY <1>6, ClockAssumption DEF DrawName, Names, TypeOK, Goto, PCs
<1>7. ASSUME NEW r \in Requests, OpenFile(r) PROVE TypeOK'
  BY <1>7 DEF OpenFile, TypeOK, Goto, PCs
<1>8. ASSUME NEW r \in Requests, WriteFile(r) PROVE TypeOK'
  <2>1. tmp' \in [Names -> (SUBSET Bodies) \cup {None}]
    <3>1. CASE linked[r]
      <4>1. \A own \in BOOLEAN :
              tmp[file[r]] \cup {[of |-> id[r], own |-> own]} \in SUBSET Bodies
        BY <3>1 DEF HasFile, TypeOK, Bodies
      <4> QED
        BY <1>8, <3>1, <4>1 DEF WriteFile, TypeOK
    <3> QED
      BY <1>8, <3>1 DEF WriteFile, TypeOK
  <2> QED
    BY <1>8, <2>1 DEF WriteFile, TypeOK, Goto, PCs
<1>9. ASSUME NEW r \in Requests, pc[r] = "post", FileFound(r), Register(r)
      PROVE  users' \subseteq [req : Requests, user : Ints, portrait : SUBSET Bodies]
  <2>1. tmp[file[r]] \in SUBSET Bodies /\ id[r] \in Ints
    BY <1>9 DEF FileFound, HasFile, TypeOK
  <2> QED
    BY <1>9, <2>1 DEF Register, TypeOK
<1>10. ASSUME NEW r \in Requests, PostFile(r) PROVE TypeOK'
  <2>1. users' \subseteq [req : Requests, user : Ints, portrait : SUBSET Bodies]
    BY <1>9, <1>10 DEF PostFile, TypeOK
  <2> QED
    BY <1>10, <2>1 DEF PostFile, TypeOK, Goto, PCs
<1>11. ASSUME NEW r \in Requests, PostFails(r) PROVE TypeOK'
  <2>1. users' \subseteq [req : Requests, user : Ints, portrait : SUBSET Bodies]
    BY <1>9, <1>11 DEF PostFails, TypeOK
  <2> QED
    BY <1>2, <1>11, <2>1 DEF PostFails, Fail, Answers
<1>12. ASSUME NEW r \in Requests, CleanTmpFile(r) PROVE TypeOK'
  BY <1>12, IntsClosed DEF CleanTmpFile, TypeOK, Goto, PCs
<1>13. CASE Tick
  BY <1>13, ClockAssumption DEF Tick, threadVars, TypeOK
<1>14. CASE Restart
  BY <1>14, CwdAssumption DEF Restart, TypeOK, PCs, Answers
<1>15. CASE UNCHANGED vars
  BY <1>15 DEF vars, threadVars, TypeOK
<1> QED
  BY <1>1, <1>3, <1>4, <1>5, <1>6, <1>7, <1>8, <1>10, <1>11, <1>12, <1>13, <1>14, <1>15
     DEF Next, Run

\* No step takes away the file a stream writes to and leaves the stream linked.
LEMMA HasFileStep ==
  ASSUME TypeIInv, [Next]_vars, NEW q \in Requests
  PROVE  HasFile(q)'
<1> USE DEF TypeIInv, TypeOK, HasFile, Goto
<1>1. ASSUME NEW r \in Requests,
             Dispatch(r) \/ SkipUser(r) \/ FindUser(r) \/ CallNeverReturns(r)
      PROVE  HasFile(q)'
  BY <1>1 DEF Dispatch, SkipUser, FindUser, CallNeverReturns
<1>2. ASSUME NEW r \in Requests,
             BadRequest(r) \/ PageFails(r) \/ SaveFails(r) \/ PostFails(r) \/ Respond(r)
      PROVE  HasFile(q)'
  BY <1>2 DEF BadRequest, PageFails, SaveFails, PostFails, Respond, Fail, Answer
<1>3. ASSUME NEW r \in Requests, DrawName(r) PROVE HasFile(q)'
  BY <1>3, ClockAssumption DEF DrawName, Names
<1>4. ASSUME NEW r \in Requests, OpenFile(r) PROVE HasFile(q)'
  BY <1>4 DEF OpenFile
<1>5. ASSUME NEW r \in Requests, WriteFile(r) PROVE HasFile(q)'
  <2>1. PICK own \in BOOLEAN :
          tmp' = IF linked[r]
                 THEN [tmp EXCEPT ![file[r]] = @ \cup {[of |-> id[r], own |-> own]}]
                 ELSE tmp
    BY <1>5 DEF WriteFile
  <2>2. [of |-> id[r], own |-> own] \in Bodies
    BY DEF Bodies
  <2>3. pc' = [pc EXCEPT ![r] = "post"] /\ pc[r] = "write" /\ UNCHANGED <<file, linked>>
    BY <1>5 DEF WriteFile
  <2> QED
    BY <2>1, <2>2, <2>3
<1>6. ASSUME NEW r \in Requests, PostFile(r) PROVE HasFile(q)'
  BY <1>6 DEF PostFile
<1>7. ASSUME NEW r \in Requests, CleanTmpFile(r) PROVE HasFile(q)'
  BY <1>7 DEF CleanTmpFile
<1>8. CASE Tick \/ UNCHANGED vars
  BY <1>8 DEF Tick, threadVars, vars
<1>9. CASE Restart
  BY <1>9 DEF Restart
<1> QED
  BY <1>1, <1>2, <1>3, <1>4, <1>5, <1>6, <1>7, <1>8, <1>9 DEF Next, Run

LEMMA InitTypeIInv == Init => TypeIInv
  BY IntsClosed, ClockAssumption, CwdAssumption
     DEF Init, TypeIInv, TypeOK, HasFile, PCs, Ranges, Answers, Names

LEMMA NextTypeIInv == TypeIInv /\ [Next]_vars => TypeIInv'
  BY TypeStep, HasFileStep DEF TypeIInv

\* userFetch keeps to the types of its variables, int and file names included: a
\* stream whose file is there always has one that was created before.
THEOREM TypeCorrect == Spec => []TypeOK
<1>1. TypeIInv => TypeOK
  BY DEF TypeIInv
<1> QED
  BY <1>1, InitTypeIInv, NextTypeIInv, PTL DEF Spec

\* The client is answered once, when the request ends.
AnsweredAtEnd(r) == pc[r] # "answered" => answer[r] = "none"

\* The inductive invariant behind LeaksOnlyByFailure.
LeakIInv == TypeIInv /\ (\A r \in Requests : AnsweredAtEnd(r)) /\ LeaksOnlyByFailure

LEMMA InitLeakIInv == Init => LeakIInv
  BY InitTypeIInv DEF Init, LeakIInv, AnsweredAtEnd, LeaksOnlyByFailure

LEMMA AnsweredAtEndStep ==
  ASSUME TypeOK, [Next]_vars, NEW q \in Requests, AnsweredAtEnd(q)
  PROVE  AnsweredAtEnd(q)'
<1> USE DEF TypeOK, AnsweredAtEnd, Goto
<1>1. ASSUME NEW r \in Requests, NEW a, Answer(r, a) PROVE AnsweredAtEnd(q)'
  BY <1>1 DEF Answer
<1>2. ASSUME NEW r \in Requests, Dispatch(r) \/ BadRequest(r) \/ CallNeverReturns(r)
      PROVE  AnsweredAtEnd(q)'
  BY <1>1, <1>2 DEF Dispatch, BadRequest, CallNeverReturns, Fail
<1>3. ASSUME NEW r \in Requests, Run(r) PROVE AnsweredAtEnd(q)'
  BY <1>1, <1>3
     DEF Run, Respond, SkipUser, FindUser, PageFails, DrawName, OpenFile, WriteFile, SaveFails,
         PostFile, PostFails, CleanTmpFile, Fail
<1>4. CASE Restart
  BY <1>4 DEF Restart
<1> QED
  BY <1>2, <1>3, <1>4 DEF Next, Tick, threadVars, vars

\* Whom a file may be blamed on.
Leaves(r, n) ==
  /\ file[r] = n
  /\ pc[r] \in {"write", "post", "clean", "stuck"} \/ answer[r] \in {"FAILURE", "lost"}

\* A thread only ends or draws another name when it is past the file it had.
LEMMA LeavesStep ==
  ASSUME TypeOK, [Next]_vars, NEW q \in Requests, AnsweredAtEnd(q), NEW n, Leaves(q, n),
         ~(CleanTmpFile(q))
  PROVE  Leaves(q, n)'
<1> USE DEF TypeOK, AnsweredAtEnd, Leaves, Goto
<1>1. ASSUME NEW r \in Requests,
             Dispatch(r) \/ SkipUser(r) \/ FindUser(r) \/ CallNeverReturns(r)
      PROVE  Leaves(q, n)'
  BY <1>1 DEF Dispatch, SkipUser, FindUser, CallNeverReturns
<1>2. ASSUME NEW r \in Requests,
             BadRequest(r) \/ PageFails(r) \/ SaveFails(r) \/ PostFails(r) \/ Respond(r)
      PROVE  Leaves(q, n)'
  BY <1>2 DEF BadRequest, PageFails, SaveFails, PostFails, Respond, Fail, Answer
<1>3. ASSUME NEW r \in Requests,
             DrawName(r) \/ OpenFile(r) \/ WriteFile(r) \/ PostFile(r)
      PROVE  Leaves(q, n)'
  BY <1>3 DEF DrawName, OpenFile, WriteFile, PostFile
<1>4. ASSUME NEW r \in Requests \ {q}, CleanTmpFile(r) PROVE Leaves(q, n)'
  BY <1>4 DEF CleanTmpFile
<1>5. CASE Tick \/ UNCHANGED vars
  BY <1>5 DEF Tick, threadVars, vars
<1>6. CASE Restart
  BY <1>6 DEF Restart
<1> QED
  BY <1>1, <1>2, <1>3, <1>4, <1>5, <1>6 DEF Next, Run

\* A file that is there was there before or was just opened.
LEMMA FileComes ==
  ASSUME TypeOK, [Next]_vars, NEW n \in Names, tmp'[n] # None
  PROVE  \/ tmp[n] # None /\ \A r \in Requests : CleanTmpFile(r) => file[r] # n
         \/ \E r \in Requests : Leaves(r, n)'
<1> USE DEF TypeOK, Goto, Leaves
<1>1. ASSUME NEW r \in Requests, OpenFile(r) \/ WriteFile(r), tmp'[n] # tmp[n]
      PROVE  Leaves(r, n)'
  BY <1>1 DEF OpenFile, WriteFile
<1>2. ASSUME NEW r \in Requests, CleanTmpFile(r) PROVE tmp[n] # None /\ file[r] # n
  BY <1>2 DEF CleanTmpFile
<1>3. ASSUME tmp'[n] # tmp[n]
      PROVE  \E r \in Requests : OpenFile(r) \/ WriteFile(r) \/ CleanTmpFile(r)
  BY <1>3
     DEF Next, Run, Dispatch, BadRequest, PageFails, SaveFails, PostFails, Respond, Fail,
         SkipUser, FindUser, CallNeverReturns, DrawName, PostFile, Tick, Restart, vars
<1> QED
  BY <1>1, <1>2, <1>3

LEMMA NextLeakIInv == LeakIInv /\ [Next]_vars => LeakIInv'
<1> SUFFICES ASSUME LeakIInv, [Next]_vars PROVE LeakIInv'
  OBVIOUS
<1>1. TypeIInv /\ TypeOK /\ \A r \in Requests : AnsweredAtEnd(r)
  BY DEF LeakIInv, TypeIInv
<1>2. TypeIInv' /\ \A r \in Requests : AnsweredAtEnd(r)'
  BY <1>1, NextTypeIInv, AnsweredAtEndStep
<1>3. ASSUME NEW n \in Names, tmp'[n] # None
      PROVE  \E r \in Requests : Leaves(r, n)'
  <2>1. CASE tmp[n] # None /\ \A r \in Requests : CleanTmpFile(r) => file[r] # n
    <3>1. PICK r \in Requests : Leaves(r, n)
      BY <2>1 DEF LeakIInv, LeaksOnlyByFailure, Leaves
    <3>2. ~CleanTmpFile(r)
      BY <2>1, <3>1 DEF Leaves
    <3> QED
      BY <1>1, <3>1, <3>2, LeavesStep
  <2> QED
    BY <1>1, <1>3, <2>1, FileComes
<1> QED
  BY <1>2, <1>3 DEF LeakIInv, LeaksOnlyByFailure, Leaves

\* userFetch leaves no file behind in a request that answers SUCCESS, whatever the
\* other requests in the same tmp directory do.
THEOREM LeaksByFailure == Spec => []LeaksOnlyByFailure
<1>1. LeakIInv => LeaksOnlyByFailure
  BY DEF LeakIInv
<1> QED
  BY <1>1, InitLeakIInv, NextLeakIInv, PTL DEF Spec

------------------------------------------------------------------------------
(* Which users a request asks JAX for, and how it counts them.             *)

\* The users of the range that the request is past.
Past(r) == UsersIn(args[r].start .. (id[r] - 1))

\* What a request has done by each point of the loop, if the loop does not wrap.
Serves(r) ==
  args[r].end # MaxInt =>
    /\ args[r].start <= id[r]
    /\ id[r] = args[r].start \/ id[r] <= args[r].end + 1
    /\ pc[r] \in {"draw", "open", "write", "post", "clean"} =>
         id[r] <= args[r].end /\ Page[id[r]] \in TakenForUser
    /\ pc[r] \in {"idle", "page", "draw", "open", "write", "post"} => served[r] = Past(r)
    /\ pc[r] = "clean" => served[r] = Past(r) \cup {id[r]}
    /\ Past(r) \subseteq served[r] /\ served[r] \subseteq Past(r) \cup {id[r]}
    /\ count[r] = Counted(Cardinality(Past(r)))
    /\ answer[r] = "SUCCESS" => id[r] > args[r].end /\ served[r] = Past(r)

\* A request that was not dispatched has done nothing.
Fresh(r) == pc[r] = "idle" => ask[r] = None /\ served[r] = {} /\ count[r] = 0

\* The args are those the client asked for.
Takes(r) == ask[r] # None => args[r] = Wanted(ask[r])

\* The inductive invariant behind ServesRangeInOrder.
RangeIInv ==
  /\ TypeIInv
  /\ \A r \in Requests : AnsweredAtEnd(r) /\ Fresh(r) /\ Takes(r) /\ Serves(r)

------------------------------------------------------------------------------
(* The users of a range, and their number.                                 *)

LEMMA NoUsers ==
  ASSUME NEW n \in Int
  PROVE  UsersIn(n .. (n - 1)) = {} /\ Counted(Cardinality(UsersIn(n .. (n - 1)))) = 0
<1>1. UsersIn(n .. (n - 1)) = {}
  BY DEF UsersIn
<1> QED
  BY <1>1, FS_EmptySet, IntAssumption DEF Counted, MaxInt

\* Going one id further adds that id if it is a user.
LEMMA OneFurther ==
  ASSUME NEW a \in Int, NEW n \in Int, a <= n
  PROVE  /\ Page[n] \notin TakenForUser => UsersIn(a .. n) = UsersIn(a .. (n - 1))
         /\ Page[n] \in TakenForUser => UsersIn(a .. n) = UsersIn(a .. (n - 1)) \cup {n}
  BY DEF UsersIn

\* A range of ints never has more users than there are ints, less one.
LEMMA FewUsers ==
  ASSUME NEW a \in Ints, NEW n \in Ints, a <= n
  PROVE  /\ IsFiniteSet(UsersIn(a .. (n - 1)))
         /\ Cardinality(UsersIn(a .. (n - 1))) \in 0 .. (2 * Half - 1)
<1> DEFINE U == UsersIn(a .. (n - 1))
<1>0. a \in Int /\ n \in Int /\ n - 1 \in Int /\ n - a <= 2 * Half - 1
  BY IntAssumption DEF Ints, MinInt, MaxInt
<1> DEFINE b == n - 1
<1>1. IsFiniteSet(a .. b) /\ Cardinality(a .. b) <= n - a
  <2> HIDE DEF b
  <2>1. b \in Int /\ b = n - 1
    BY <1>0 DEF b
  <2>2. IsFiniteSet(a .. b) /\ Cardinality(a .. b) = IF a > b THEN 0 ELSE b - a + 1
    BY <1>0, <2>1, FS_Interval
  <2> QED
    BY <1>0, <2>1, <2>2
<1>2. U \subseteq a .. (n - 1)
  BY DEF UsersIn
<1>3. IsFiniteSet(U) /\ Cardinality(U) <= Cardinality(a .. (n - 1))
  BY <1>1, <1>2, FS_Subset
<1>4. Cardinality(U) \in Nat /\ Cardinality(a .. (n - 1)) \in Nat
  BY <1>1, <1>3, FS_CardinalityType
<1> QED
  BY <1>0, <1>1, <1>3, <1>4, IntAssumption

\* count++ counts one user more, even where the int wraps.
LEMMA CountOneMore ==
  ASSUME NEW a \in Ints, NEW n \in Ints, a <= n, Page[n] \in TakenForUser
  PROVE  Counted(Cardinality(UsersIn(a .. n)))
           = Inc(Counted(Cardinality(UsersIn(a .. (n - 1)))))
<1> DEFINE U == UsersIn(a .. (n - 1))
<1>0. a \in Int /\ n \in Int
  BY IntAssumption DEF Ints, MinInt, MaxInt
<1>1. UsersIn(a .. n) = U \cup {n}
  BY <1>0, OneFurther
<1>2. n \notin U
  BY <1>0 DEF UsersIn
<1>3. IsFiniteSet(U) /\ Cardinality(U) \in 0 .. (2 * Half - 1)
  BY FewUsers
<1> HIDE DEF U
<1>4. Cardinality(U \cup {n}) = Cardinality(U) + 1
  BY <1>2, <1>3, FS_AddElement
<1>5. ASSUME NEW c \in 0 .. (2 * Half - 1) PROVE Counted(c + 1) = Inc(Counted(c))
  BY IntAssumption DEF Counted, Inc, MaxInt, MinInt
<1>6. Counted(Cardinality(U) + 1) = Inc(Counted(Cardinality(U)))
  BY <1>3, <1>5
<1> QED
  BY <1>1, <1>4, <1>6 DEF U

------------------------------------------------------------------------------
(* The steps.                                                              *)

\* What Fresh, Takes and Serves speak of, for one request.
Same(q) ==
  /\ args'[q] = args[q] /\ id'[q] = id[q] /\ ask'[q] = ask[q]
  /\ served'[q] = served[q] /\ count'[q] = count[q]

\* The threads of the other requests have their own variables.
LEMMA OthersSame ==
  ASSUME TypeOK, NEW r \in Requests, NEW q \in Requests \ {r},
         Dispatch(r) \/ BadRequest(r) \/ Run(r) \/ CallNeverReturns(r)
  PROVE  Same(q) /\ pc'[q] = pc[q] /\ answer'[q] = answer[q]
<1> USE DEF TypeOK, Same, Goto
<1>1. CASE Dispatch(r) \/ CallNeverReturns(r)
  BY <1>1 DEF Dispatch, CallNeverReturns
<1>2. CASE BadRequest(r) \/ PageFails(r) \/ SaveFails(r) \/ PostFails(r) \/ Respond(r)
  BY <1>2 DEF BadRequest, PageFails, SaveFails, PostFails, Respond, Fail, Answer
<1>3. CASE SkipUser(r) \/ FindUser(r) \/ DrawName(r) \/ OpenFile(r) \/ WriteFile(r)
           \/ PostFile(r) \/ CleanTmpFile(r)
  BY <1>3 DEF SkipUser, FindUser, DrawName, OpenFile, WriteFile, PostFile, CleanTmpFile
<1> QED
  BY <1>1, <1>2, <1>3 DEF Run

\* Such a thread, one that goes on to the next step for the same user, and one that
\* ends without SUCCESS.
LEMMA SameServes ==
  ASSUME NEW q \in Requests, Serves(q), Same(q),
         \/ pc'[q] = pc[q] /\ answer'[q] = answer[q]
         \/ pc[q] \in {"draw", "open", "write"} /\ pc'[q] \in {"open", "write", "post"}
              /\ answer'[q] = answer[q]
         \/ pc'[q] \in {"answered", "stuck"} /\ answer'[q] \in {"none", "FAILURE", "lost"}
         \/ pc'[q] \in {"answered", "stuck"} /\ answer'[q] = answer[q]
  PROVE  Serves(q)'
  BY DEF Serves, Past, Same

\* The request is dispatched with the args of its last field, at the start.
LEMMA DispatchServes ==
  ASSUME TypeOK, NEW q \in Requests, Fresh(q), AnsweredAtEnd(q), Dispatch(q)
  PROVE  Takes(q)' /\ Serves(q)'
<1>1. PICK a \in Asks :
        /\ WellFormed(a)
        /\ ask' = [ask EXCEPT ![q] = a]
        /\ args' = [args EXCEPT ![q] = Merged(a).args]
        /\ id' = [id EXCEPT ![q] = Merged(a).args.start]
  BY DEF Dispatch
<1>2. Merged(a).args \in Ranges /\ Merged(a).args = Wanted(a)
  BY <1>1, AskedIsTyped, MergedArgs
<1>3. ask'[q] = a /\ args'[q] = Merged(a).args /\ id'[q] = args'[q].start
  BY <1>1 DEF TypeOK
<1>4. id'[q] \in Int
  BY <1>2, <1>3 DEF Ranges, Ints
<1>5. pc'[q] = "page" /\ answer'[q] = "none" /\ served'[q] = {} /\ count'[q] = 0
  BY DEF Dispatch, Goto, TypeOK, Fresh, AnsweredAtEnd
<1>6. Past(q)' = {} /\ Counted(Cardinality(Past(q)'))= 0
  BY <1>3, <1>4, NoUsers DEF Past
<1> QED
  BY <1>2, <1>3, <1>4, <1>5, <1>6 DEF Takes, Serves

\* id++ in a loop that does not wrap.
LEMMA Advance ==
  ASSUME TypeOK, NEW q \in Requests, args[q].end # MaxInt, id[q] <= args[q].end
  PROVE  Inc(id[q]) = id[q] + 1 /\ id[q] \in Int /\ args[q].start \in Int /\ args[q].end \in Int
<1>1. id[q] \in Ints /\ args[q].end \in Ints /\ args[q].start \in Ints
  BY DEF TypeOK, Ranges
<1> QED
  BY <1>1, IntAssumption DEF Ints, MinInt, MaxInt, Inc

\* The loop goes past an id that is no user, or past a user it asked for.
LEMMA NextIdServes ==
  ASSUME TypeOK, NEW q \in Requests, Serves(q), AnsweredAtEnd(q),
         SkipUser(q) \/ CleanTmpFile(q)
  PROVE  Serves(q)'
<1> SUFFICES ASSUME args'[q].end # MaxInt
             PROVE  Serves(q)'
  BY DEF Serves
<1>1. args' = args /\ served' = served /\ answer' = answer
  BY DEF SkipUser, CleanTmpFile
<1>2. id[q] <= args[q].end
  BY <1>1 DEF SkipUser, CleanTmpFile, InLoop, Serves
<1>3. id'[q] = id[q] + 1 /\ id[q] \in Int /\ args[q].start \in Int /\ args[q].end \in Int
  BY <1>1, <1>2, Advance DEF SkipUser, CleanTmpFile, TypeOK
<1>4. id[q] \in Ints /\ args[q].start \in Ints /\ args[q].start <= id[q]
  BY <1>1 DEF TypeOK, Ranges, Serves
<1>5. Past(q)' = UsersIn(args[q].start .. id[q])
  BY <1>1, <1>3 DEF Past
<1>6. pc'[q] = "page" /\ answer'[q] # "SUCCESS"
  BY <1>1 DEF SkipUser, CleanTmpFile, Goto, TypeOK, AnsweredAtEnd
<1>7. served'[q] = Past(q)' /\ count'[q] = Counted(Cardinality(Past(q)'))
  <2>1. CASE SkipUser(q)
    <3>1. Past(q)' = Past(q)
      BY <1>3, <1>4, <1>5, <2>1, OneFurther DEF SkipUser, Past, TakenForUser
    <3> QED
      BY <1>1, <2>1, <3>1 DEF SkipUser, Serves
  <2>2. CASE CleanTmpFile(q)
    <3>1. Page[id[q]] \in TakenForUser /\ served[q] = Past(q) \cup {id[q]}
          /\ count[q] = Counted(Cardinality(Past(q)))
      BY <1>1, <2>2 DEF CleanTmpFile, Serves
    <3>2. Past(q)' = Past(q) \cup {id[q]}
      BY <1>3, <1>4, <1>5, <3>1, OneFurther DEF Past
    <3>3. Counted(Cardinality(Past(q)')) = Inc(count[q])
      BY <1>4, <1>5, <3>1, CountOneMore DEF Past
    <3> QED
      BY <1>1, <2>2, <3>1, <3>2, <3>3 DEF CleanTmpFile, TypeOK
  <2> QED
    BY <2>1, <2>2
<1> QED
  BY <1>1, <1>2, <1>3, <1>4, <1>6, <1>7 DEF Serves

\* A step of a request, on what it has done.
LEMMA OwnServes ==
  ASSUME TypeOK, NEW q \in Requests, Serves(q), AnsweredAtEnd(q), Fresh(q), Takes(q),
         Dispatch(q) \/ BadRequest(q) \/ Run(q) \/ CallNeverReturns(q)
  PROVE  Fresh(q)' /\ Takes(q)' /\ Serves(q)'
<1>1. CASE Dispatch(q)
  <2>1. pc'[q] = "page"
    BY <1>1 DEF Dispatch, Goto, TypeOK
  <2> QED
    BY <1>1, <2>1, DispatchServes DEF Fresh
<1>2. ASSUME Same(q), pc'[q] # "idle" PROVE Fresh(q)' /\ Takes(q)'
  BY <1>2 DEF Fresh, Takes, Same
<1>3. CASE BadRequest(q) \/ PageFails(q) \/ SaveFails(q) \/ PostFails(q) \/ CallNeverReturns(q)
  <2>1. Same(q) /\ pc'[q] \in {"answered", "stuck"}
        /\ answer'[q] \in {"none", "FAILURE", "lost"}
    BY <1>3 DEF BadRequest, PageFails, SaveFails, PostFails, CallNeverReturns, Fail, Answer, Goto,
                TypeOK, Same, AnsweredAtEnd
  <2> QED
    BY <1>2, <2>1, SameServes
<1>4. CASE Respond(q)
  <2>1. Same(q) /\ pc[q] = "page" /\ pc'[q] = "answered" /\ ~InLoop(q)
    BY <1>4 DEF Respond, Answer, Goto, TypeOK, Same
  <2>2. id[q] \in Int /\ args[q].end \in Int
    BY DEF TypeOK, Ranges, Ints
  <2>3. Serves(q)'
    BY <2>1, <2>2 DEF Serves, Past, Same, InLoop
  <2> QED
    BY <1>2, <2>1, <2>3
<1>5. CASE SkipUser(q) \/ CleanTmpFile(q)
  <2>1. pc'[q] = "page" /\ ask'[q] = ask[q] /\ args'[q] = args[q]
    BY <1>5 DEF SkipUser, CleanTmpFile, Goto, TypeOK
  <2> QED
    BY <1>5, <2>1, NextIdServes DEF Fresh, Takes
<1>6. CASE FindUser(q)
  <2>1. Same(q) /\ pc[q] = "page" /\ pc'[q] = "draw" /\ answer'[q] = answer[q]
        /\ id[q] <= args[q].end /\ Page[id[q]] \in TakenForUser
    BY <1>6 DEF FindUser, Goto, TypeOK, Same, InLoop
  <2>2. Serves(q)'
    BY <2>1 DEF Serves, Past, Same
  <2> QED
    BY <1>2, <2>1, <2>2
<1>7. CASE DrawName(q) \/ OpenFile(q) \/ WriteFile(q)
  <2>1. Same(q) /\ answer'[q] = answer[q]
        /\ pc[q] \in {"draw", "open", "write"} /\ pc'[q] \in {"open", "write", "post"}
    BY <1>7 DEF DrawName, OpenFile, WriteFile, Goto, TypeOK, Same
  <2> QED
    BY <1>2, <2>1, SameServes
<1>8. CASE PostFile(q)
  <2>1. /\ args'[q] = args[q] /\ id'[q] = id[q] /\ ask'[q] = ask[q] /\ count'[q] = count[q]
        /\ served'[q] = served[q] \cup {id[q]}
        /\ pc[q] = "post" /\ pc'[q] = "clean" /\ answer'[q] = "none"
    BY <1>8 DEF PostFile, Goto, TypeOK, AnsweredAtEnd
  <2>2. Serves(q)'
    BY <2>1 DEF Serves, Past
  <2> QED
    BY <2>1, <2>2 DEF Fresh, Takes
<1> QED
  BY <1>1, <1>3, <1>4, <1>5, <1>6, <1>7, <1>8 DEF Run

LEMMA InitRangeIInv == Init => RangeIInv
<1> SUFFICES ASSUME Init, NEW r \in Requests
             PROVE  AnsweredAtEnd(r) /\ Fresh(r) /\ Takes(r) /\ Serves(r)
  BY InitTypeIInv DEF RangeIInv
<1>1. Past(r) = {} /\ Counted(Cardinality(Past(r))) = 0
  BY NoUsers DEF Past, Init
<1> QED
  BY <1>1 DEF Init, AnsweredAtEnd, Fresh, Takes, Serves

LEMMA NextRangeIInv == RangeIInv /\ [Next]_vars => RangeIInv'
<1> SUFFICES ASSUME RangeIInv, [Next]_vars PROVE RangeIInv'
  OBVIOUS
<1>1. TypeIInv /\ TypeOK /\ TypeIInv'
  BY NextTypeIInv DEF RangeIInv, TypeIInv
<1>2. ASSUME NEW q \in Requests
      PROVE  AnsweredAtEnd(q)' /\ Fresh(q)' /\ Takes(q)' /\ Serves(q)'
  <2>1. AnsweredAtEnd(q) /\ Fresh(q) /\ Takes(q) /\ Serves(q)
    BY DEF RangeIInv
  <2>2. AnsweredAtEnd(q)'
    BY <1>1, <2>1, AnsweredAtEndStep
  <2>3. CASE \E r \in Requests :
               Dispatch(r) \/ BadRequest(r) \/ Run(r) \/ CallNeverReturns(r)
    <3>1. PICK r \in Requests : Dispatch(r) \/ BadRequest(r) \/ Run(r) \/ CallNeverReturns(r)
      BY <2>3
    <3>2. CASE r = q
      BY <1>1, <2>1, <2>2, <3>1, <3>2, OwnServes
    <3>3. CASE r # q
      <4>1. Same(q) /\ pc'[q] = pc[q] /\ answer'[q] = answer[q]
        BY <1>1, <3>1, <3>3, OthersSame
      <4>2. Serves(q)'
        BY <2>1, <4>1, SameServes
      <4> QED
        BY <2>1, <2>2, <4>1, <4>2 DEF Fresh, Takes, Same
    <3> QED
      BY <3>2, <3>3
  <2>4. CASE Tick \/ UNCHANGED vars
    <3>1. Same(q) /\ pc'[q] = pc[q] /\ answer'[q] = answer[q]
      BY <2>4 DEF Tick, vars, threadVars, Same
    <3>2. Serves(q)'
      BY <2>1, <3>1, SameServes
    <3> QED
      BY <2>1, <2>2, <3>1, <3>2 DEF Fresh, Takes, Same
  <2>5. CASE Restart
    <3>1. /\ Same(q)
          /\ \/ pc'[q] = pc[q] /\ answer'[q] = answer[q]
             \/ pc'[q] = "answered" /\ answer'[q] = "lost"
      BY <1>1, <2>5 DEF Restart, Same, TypeOK
    <3>2. Serves(q)'
      BY <2>1, <3>1, SameServes
    <3> QED
      BY <2>1, <2>2, <3>1, <3>2 DEF Fresh, Takes, Same
  <2> QED
    BY <2>3, <2>4, <2>5 DEF Next
<1> QED
  BY <1>1, <1>2 DEF RangeIInv

\* userFetch asks JAX for the users of the range the client asked for and for nobody
\* else, in the order of their ids, and SUCCESS stands for all of them, however long
\* the range is; the count it answers is theirs as an int.
THEOREM ServesInOrder == Spec => []ServesRangeInOrder
<1>1. RangeIInv => ServesRangeInOrder
  <2> SUFFICES ASSUME RangeIInv, NEW r \in Requests, ask[r] # None, Wanted(ask[r]).end # MaxInt
               PROVE  /\ Past(r) \subseteq served[r] /\ served[r] \subseteq Past(r) \cup {id[r]}
                      /\ count[r] = Counted(Cardinality(Past(r)))
                      /\ answer[r] = "SUCCESS" =>
                           served[r] = UsersIn(args[r].start .. args[r].end)
    BY DEF ServesRangeInOrder, RangeIInv, Takes, Past
  <2>1. args[r].end # MaxInt /\ Serves(r)
    BY DEF RangeIInv, Takes
  <2>2. id[r] \in Int /\ args[r].start \in Int /\ args[r].end \in Int
    BY DEF RangeIInv, TypeIInv, TypeOK, Ranges, Ints
  <2>3. ASSUME answer[r] = "SUCCESS" PROVE Past(r) = UsersIn(args[r].start .. args[r].end)
    <3>1. (args[r].start .. (id[r] - 1)) = (args[r].start .. args[r].end)
      BY <2>1, <2>2, <2>3 DEF Serves
    <3> QED
      BY <3>1 DEF Past
  <2> QED
    BY <2>1, <2>3 DEF Serves
<1> QED
  BY <1>1, InitRangeIInv, NextRangeIInv, PTL DEF Spec
=============================================================================
