---------------------------- MODULE HttpCallProofs ----------------------------
(* What a call of InternetUtil holds to, for any number of calls, repeats and *)
(* descriptors, and that it implements Exchange.                              *)
EXTENDS HttpCall, FiniteSetTheorems, TLAPS

\* The functions have their types; descriptors are counted apart.
Shape ==
  /\ pc \in [Calls -> PCs]
  /\ op \in [Calls -> Ops \cup {"none"}]
  /\ result \in [Calls -> {"none", "answer", "FioraException", "RuntimeException"}]
  /\ try \in [Calls -> 1..MaxTries]
  /\ conn \in [Calls -> BOOLEAN]
  /\ stream \in [Calls -> BOOLEAN]
  /\ framed \in [Calls -> BOOLEAN]
  /\ body \in [Calls -> {"none", "part", "whole"}]
  /\ sent \in [Calls -> SUBSET (1..MaxTries)]
  /\ done \in [Calls -> SUBSET (1..MaxTries)]

CallInv == Shape /\ TriesInv /\ AnswerIsWhole

LEMMA InitCallInv == Init => CallInv
  BY TriesAssumption DEF Init, CallInv, Shape, TriesInv, AnswerIsWhole, PCs, Ops, Gets

LEMMA RequestStep ==
  ASSUME CallInv, NEW c \in Calls,
         Call(c) \/ Build(c) \/ Connect(c) \/ Send(c) \/ ExecuteFails(c) \/ Respond(c)
  PROVE  CallInv'
<1> USE TriesAssumption
    DEF CallInv, Shape, TriesInv, AnswerIsWhole, PCs, Ops, Gets, Goto, Throw
<1>1. CASE Call(c)
  BY <1>1 DEF Call
<1>2. CASE Build(c)
  BY <1>2 DEF Build
<1>3. CASE Connect(c)
  BY <1>3 DEF Connect
<1>4. CASE Send(c)
  BY <1>4 DEF Send
<1>5. CASE ExecuteFails(c)
  BY <1>5 DEF ExecuteFails, FailsOrRepeats, MayRetry
<1>6. CASE Respond(c)
  BY <1>6 DEF Respond
<1> QED
  BY <1>1, <1>2, <1>3, <1>4, <1>5, <1>6

LEMMA AnswerStep ==
  ASSUME CallInv, NEW c \in Calls,
         ReadEntity(c) \/ EntityFails(c) \/ NoEntity(c) \/ OpenFile(c) \/ CopyFile(c) \/ CopyFails(c)
  PROVE  CallInv'
<1> USE DEF CallInv, Shape, TriesInv, AnswerIsWhole, PCs, Ops, Gets, Goto, Throw
<1>1. CASE ReadEntity(c)
  BY <1>1 DEF ReadEntity, ReadsToEnd
<1>2. CASE EntityFails(c)
  BY <1>2 DEF EntityFails
<1>3. CASE NoEntity(c)
  BY <1>3 DEF NoEntity
<1>4. CASE OpenFile(c)
  BY <1>4 DEF OpenFile
<1>5. CASE CopyFile(c)
  BY <1>5 DEF CopyFile, ReadsToEnd
<1>6. CASE CopyFails(c)
  BY <1>6 DEF CopyFails
<1> QED
  BY <1>1, <1>2, <1>3, <1>4, <1>5, <1>6

LEMMA CloseStep ==
  ASSUME CallInv, NEW c \in Calls,
         CloseResponse(c) \/ CloseResponseFails(c) \/ CloseClient(c) \/ CloseClientFails(c)
  PROVE  CallInv'
<1> USE DEF CallInv, Shape, TriesInv, AnswerIsWhole, PCs, Ops, Gets, Goto, Throw
<1>1. CASE CloseResponse(c)
  BY <1>1 DEF CloseResponse
<1>2. CASE CloseResponseFails(c)
  BY <1>2 DEF CloseResponseFails
<1>3. CASE CloseClient(c)
  BY <1>3 DEF CloseClient
<1>4. CASE CloseClientFails(c)
  BY <1>4 DEF CloseClientFails
<1> QED
  BY <1>1, <1>2, <1>3, <1>4

LEMMA OutsideStep ==
  ASSUME CallInv, NEW c \in Calls,
         NeverReturns(c) \/ Collect(c) \/ \E k \in 1..MaxTries : Process(c, k)
  PROVE  CallInv'
<1> USE DEF CallInv, Shape, TriesInv, AnswerIsWhole, PCs, Ops, Gets, Goto
<1>1. CASE NeverReturns(c)
  BY <1>1 DEF NeverReturns
<1>2. CASE Collect(c)
  BY <1>2 DEF Collect
<1>3. ASSUME NEW k \in 1..MaxTries, Process(c, k) PROVE CallInv'
  BY <1>3 DEF Process
<1> QED
  BY <1>1, <1>2, <1>3

LEMMA NextCallInv == CallInv /\ [Next]_vars => CallInv'
<1> SUFFICES ASSUME CallInv, [Next]_vars PROVE CallInv'
  OBVIOUS
<1>1. CASE UNCHANGED vars
  BY <1>1 DEF vars, CallInv, Shape, TriesInv, AnswerIsWhole
<1>2. ASSUME NEW c \in Calls, Run(c) PROVE CallInv'
  BY <1>2, RequestStep, AnswerStep, CloseStep DEF Run
<1>3. ASSUME NEW c \in Calls, Call(c) PROVE CallInv'
  BY <1>3, RequestStep
<1>4. ASSUME NEW c \in Calls,
             NeverReturns(c) \/ Collect(c) \/ \E k \in 1..MaxTries : Process(c, k)
      PROVE  CallInv'
  BY <1>4, OutsideStep
<1> QED
  BY <1>1, <1>2, <1>3, <1>4 DEF Next

LEMMA CallInvariance == Spec => []CallInv
  BY InitCallInv, NextCallInv, PTL DEF Spec

\* What the retry handler and the try keep, for every number of repeats.
THEOREM TriesAreKept == Spec => []TriesInv
<1>1. CallInv => TriesInv
  BY DEF CallInv
<1> QED
  BY <1>1, CallInvariance, PTL

\* post and postFile never go out twice, whatever fails.
THEOREM PostsOnce == Spec => []PostAtMostOnce
<1>1. CallInv => PostAtMostOnce
  <2> SUFFICES ASSUME CallInv, NEW c \in Calls, op[c] \notin Gets
               PROVE  Cardinality(sent[c]) <= 1
    BY DEF PostAtMostOnce
  <2>1. sent[c] \subseteq {try[c]}
    BY DEF CallInv, TriesInv
  <2>2. sent[c] = {} \/ sent[c] = {try[c]}
    BY <2>1
  <2>3. Cardinality({}) = 0 /\ Cardinality({try[c]}) = 1
    BY FS_EmptySet, FS_Singleton
  <2> QED
    BY <2>2, <2>3
<1> QED
  BY <1>1, CallInvariance, PTL

\* get, post, postFile and getAndSaveFile never return half of an answer that says
\* where it ends.
THEOREM AnswersAreWhole == Spec => []AnswerIsWhole
<1>1. CallInv => AnswerIsWhole
  BY DEF CallInv
<1> QED
  BY <1>1, CallInvariance, PTL

------------------------------------------------------------------------------
(* Descriptors.                                                             *)

\* How many of the calls in S hold theirs.
LEMMA Counted ==
  ASSUME NEW f \in [Calls -> BOOLEAN]
  PROVE  /\ IsFiniteSet({c \in Calls : f[c]})
         /\ Cardinality({c \in Calls : f[c]}) \in Nat
<1>1. IsFiniteSet({c \in Calls : f[c]})
  BY CallsAssumption, FS_Subset
<1> QED
  BY <1>1, FS_CardinalityType

LEMMA CountedFewer ==
  ASSUME NEW f \in [Calls -> BOOLEAN], NEW g \in [Calls -> BOOLEAN],
         \A c \in Calls : g[c] => f[c]
  PROVE  Cardinality({c \in Calls : g[c]}) <= Cardinality({c \in Calls : f[c]})
<1>1. {c \in Calls : g[c]} \subseteq {c \in Calls : f[c]}
  OBVIOUS
<1> QED
  BY <1>1, Counted, FS_Subset

LEMMA CountedOneMore ==
  ASSUME NEW f \in [Calls -> BOOLEAN], NEW c \in Calls
  PROVE  Cardinality({d \in Calls : [f EXCEPT ![c] = TRUE][d]})
           <= Cardinality({d \in Calls : f[d]}) + 1
<1> DEFINE S == {d \in Calls : f[d]}
<1>1. {d \in Calls : [f EXCEPT ![c] = TRUE][d]} = S \cup {c}
  OBVIOUS
<1>2. IsFiniteSet(S) /\ Cardinality(S) \in Nat
  BY Counted
<1>3. Cardinality(S \cup {c}) <= Cardinality(S) + 1
  BY <1>2, FS_AddElement
<1> QED
  BY <1>1, <1>3

LEMMA OpenStep ==
  ASSUME CallInv, CallInv', Open <= MaxOpen, [Next]_vars
  PROVE  Open' <= MaxOpen
<1> DEFINE Fewer == \A c \in Calls : (conn'[c] => conn[c]) /\ (stream'[c] => stream[c])
           Conns == Cardinality({c \in Calls : conn[c]})
           Streams == Cardinality({c \in Calls : stream[c]})
           Conns2 == Cardinality({c \in Calls : conn'[c]})
           Streams2 == Cardinality({c \in Calls : stream'[c]})
<1>0. /\ conn \in [Calls -> BOOLEAN] /\ conn' \in [Calls -> BOOLEAN]
      /\ stream \in [Calls -> BOOLEAN] /\ stream' \in [Calls -> BOOLEAN]
  BY DEF CallInv, Shape
<1>t. Conns \in Nat /\ Streams \in Nat /\ Conns2 \in Nat /\ Streams2 \in Nat
  BY <1>0, Counted
<1>o. Open = Conns + Streams /\ Open' = Conns2 + Streams2
  BY DEF Open
<1>1. CASE Fewer
  <2>1. Conns2 <= Conns
    BY <1>0, <1>1, CountedFewer
  <2>2. Streams2 <= Streams
    BY <1>0, <1>1, CountedFewer
  <2> HIDE DEF Conns, Streams, Conns2, Streams2
  <2> QED
    BY <1>t, <1>o, <2>1, <2>2, OpenAssumption
<1>2. ASSUME NEW c \in Calls, Connect(c) PROVE Open' <= MaxOpen
  <2>1. conn' = [conn EXCEPT ![c] = TRUE] /\ stream' = stream /\ Open < MaxOpen
    BY <1>2 DEF Connect
  <2>2. Conns2 <= Conns + 1
    BY <1>0, <2>1, CountedOneMore
  <2>3. Streams2 = Streams
    BY <2>1
  <2> HIDE DEF Conns, Streams, Conns2, Streams2
  <2> QED
    BY <1>t, <1>o, <2>1, <2>2, <2>3, OpenAssumption
<1>3. ASSUME NEW c \in Calls, OpenFile(c) PROVE Open' <= MaxOpen
  <2>1. stream' = [stream EXCEPT ![c] = TRUE] /\ conn' = conn /\ Open < MaxOpen
    BY <1>3 DEF OpenFile
  <2>2. Streams2 <= Streams + 1
    BY <1>0, <2>1, CountedOneMore
  <2>3. Conns2 = Conns
    BY <2>1
  <2> HIDE DEF Conns, Streams, Conns2, Streams2
  <2> QED
    BY <1>t, <1>o, <2>1, <2>2, <2>3, OpenAssumption
<1>4. ASSUME NEW c \in Calls, Run(c), ~Connect(c), ~OpenFile(c) PROVE Fewer
  BY <1>0, <1>4
     DEF Run, Build, Send, ExecuteFails, FailsOrRepeats, Respond, ReadEntity, EntityFails, NoEntity,
         CopyFile, CopyFails, CloseResponse, CloseResponseFails, CloseClient,
         CloseClientFails
<1>5. ASSUME NEW c \in Calls,
             Call(c) \/ NeverReturns(c) \/ Collect(c) \/ \E k \in 1..MaxTries : Process(c, k)
      PROVE  Fewer
  BY <1>0, <1>5 DEF Call, NeverReturns, Collect, Process
<1>6. CASE UNCHANGED vars
  BY <1>1, <1>6 DEF vars
<1> QED
  BY <1>1, <1>2, <1>3, <1>4, <1>5, <1>6 DEF Next

\* Types, and no more descriptors than there are, for any number of calls.
THEOREM TypeCorrect == Spec => []TypeOK
<1>1. Init => Open <= MaxOpen
  <2> SUFFICES ASSUME Init PROVE Open <= MaxOpen
    OBVIOUS
  <2>1. {c \in Calls : conn[c]} = {} /\ {c \in Calls : stream[c]} = {}
    BY DEF Init
  <2> QED
    BY <2>1, FS_EmptySet, OpenAssumption DEF Open
<1>2. CallInv /\ Open <= MaxOpen /\ [Next]_vars => (Open <= MaxOpen)'
  BY OpenStep, NextCallInv
<1>3. CallInv /\ Open <= MaxOpen => TypeOK
  BY DEF CallInv, Shape, TypeOK
<1> QED
  BY <1>1, <1>2, <1>3, CallInvariance, PTL DEF Spec

------------------------------------------------------------------------------
(* A call implements Exchange.                                              *)

SeenStates == [c \in Calls |-> CallState(c)]
SeenSafe == [c \in Calls |-> op[c] \in Gets]

\* A step of one call is seen by the callers as a step of that call only.
LEMMA SeenStep ==
  ASSUME NEW c \in Calls,
         \A d \in Calls \ {c} : pc'[d] = pc[d] /\ result'[d] = result[d] /\ op'[d] = op[d]
  PROVE  /\ SeenStates' = [SeenStates EXCEPT ![c] = CallState(c)']
         /\ SeenSafe' = [SeenSafe EXCEPT ![c] = (op'[c] \in Gets)]
<1>1. \A d \in Calls \ {c} : CallState(d)' = CallState(d)
  BY DEF CallState
<1>2. SeenStates' = [SeenStates EXCEPT ![c] = CallState(c)']
  BY <1>1 DEF SeenStates
<1>3. SeenSafe' = [SeenSafe EXCEPT ![c] = (op'[c] \in Gets)]
  BY DEF SeenSafe
<1> QED
  BY <1>2, <1>3

LEMMA InitCaller == Init => Caller!Init
<1> SUFFICES ASSUME Init PROVE Caller!Init
  OBVIOUS
<1>1. \A c \in Calls : CallState(c) = "idle" /\ ~(op[c] \in Gets)
  BY DEF Init, CallState, Gets
<1>2. SeenStates = [c \in Calls |-> "idle"]
  BY <1>1 DEF SeenStates
<1>3. SeenSafe = [c \in Calls |-> FALSE]
  <2>1. \A c \in Calls : (op[c] \in Gets) = FALSE
    BY <1>1
  <2> QED
    BY <2>1 DEF SeenSafe
<1> QED
  BY <1>2, <1>3 DEF Init, Caller!Init, SeenStates, SeenSafe

\* What a step of the thread of c leaves alone of the other calls and of c.
LEMMA RunFrame ==
  ASSUME CallInv, NEW c \in Calls, Run(c) \/ NeverReturns(c) \/ Collect(c)
  PROVE  /\ UNCHANGED <<op, done>>
         /\ \A d \in Calls \ {c} : pc'[d] = pc[d] /\ result'[d] = result[d]
         /\ pc[c] # "idle" /\ pc'[c] # "idle"
         /\ pc[c] = "returned" => pc'[c] = "returned" /\ result'[c] = result[c]
<1> USE DEF CallInv, Shape, PCs, Goto, Throw
<1>1. CASE Build(c) \/ Connect(c) \/ Send(c) \/ Respond(c)
  BY <1>1 DEF Build, Connect, Send, Respond
<1>2. CASE ExecuteFails(c)
  BY <1>2 DEF ExecuteFails, FailsOrRepeats
<1>3. CASE ReadEntity(c) \/ EntityFails(c) \/ NoEntity(c)
  BY <1>3 DEF ReadEntity, EntityFails, NoEntity
<1>4. CASE OpenFile(c) \/ CopyFile(c) \/ CopyFails(c)
  BY <1>4 DEF OpenFile, CopyFile, CopyFails
<1>5. CASE CloseResponse(c) \/ CloseResponseFails(c) \/ CloseClient(c) \/ CloseClientFails(c)
  BY <1>5 DEF CloseResponse, CloseResponseFails, CloseClient, CloseClientFails
<1>6. CASE NeverReturns(c) \/ Collect(c)
  BY <1>6 DEF NeverReturns, Collect
<1> QED
  BY <1>1, <1>2, <1>3, <1>4, <1>5, <1>6 DEF Run

LEMMA RunIsCallerStep ==
  ASSUME CallInv, CallInv', NEW c \in Calls, Run(c) \/ NeverReturns(c) \/ Collect(c)
  PROVE  [Caller!Next]_(Caller!vars)
<1>1. /\ UNCHANGED <<op, done>>
      /\ \A d \in Calls \ {c} : pc'[d] = pc[d] /\ result'[d] = result[d]
      /\ pc[c] # "idle" /\ pc'[c] # "idle"
      /\ pc[c] = "returned" => pc'[c] = "returned" /\ result'[c] = result[c]
  BY RunFrame
<1>2. /\ SeenStates' = [SeenStates EXCEPT ![c] = CallState(c)']
      /\ SeenSafe' = SeenSafe
  <2>1. SeenStates' = [SeenStates EXCEPT ![c] = CallState(c)']
    BY <1>1, SeenStep
  <2>2. SeenSafe' = SeenSafe
    BY <1>1 DEF SeenSafe
  <2> QED
    BY <2>1, <2>2
<1>3. CASE CallState(c)' = CallState(c)
  <2>1. SeenStates' = SeenStates
    BY <1>2, <1>3 DEF SeenStates
  <2> QED
    BY <1>1, <1>2, <2>1 DEF Caller!vars, SeenStates, SeenSafe
<1>4. CASE CallState(c)' # CallState(c)
  <2>1. pc[c] # "returned" /\ pc'[c] = "returned" /\ CallState(c) = "running"
    BY <1>1, <1>4 DEF CallState
  <2>2. CASE result'[c] = "answer"
    <3>1. done[c] # {}
      BY <1>1, <2>2 DEF CallInv, AnswerIsWhole
    <3>2. CallState(c)' = "answer"
      BY <2>1, <2>2 DEF CallState
    <3>3. Caller!Return(c)
      BY <1>1, <1>2, <2>1, <3>1, <3>2 DEF Caller!Return, SeenStates, SeenSafe
    <3> QED
      BY <3>3 DEF Caller!Next
  <2>3. CASE result'[c] # "answer"
    <3>1. CallState(c)' = "error"
      BY <2>1, <2>3 DEF CallState
    <3>2. Caller!Fail(c)
      BY <1>1, <1>2, <2>1, <3>1 DEF Caller!Fail, SeenStates, SeenSafe
    <3> QED
      BY <3>2 DEF Caller!Next
  <2> QED
    BY <2>2, <2>3
<1> QED
  BY <1>3, <1>4

LEMMA CallIsCallerStep ==
  ASSUME CallInv, NEW c \in Calls, Call(c)
  PROVE  Caller!Next
<1>1. /\ \A d \in Calls \ {c} : pc'[d] = pc[d] /\ result'[d] = result[d] /\ op'[d] = op[d]
      /\ pc[c] = "idle" /\ pc'[c] = "build" /\ done' = done
  BY DEF Call, Goto, CallInv, Shape
<1>2. /\ SeenStates' = [SeenStates EXCEPT ![c] = CallState(c)']
      /\ SeenSafe' = [SeenSafe EXCEPT ![c] = (op'[c] \in Gets)]
  BY <1>1, SeenStep
<1>3. CallState(c) = "idle" /\ CallState(c)' = "running"
  BY <1>1 DEF CallState
<1>4. \E s \in BOOLEAN : SeenSafe' = [SeenSafe EXCEPT ![c] = s]
  <2>1. (op'[c] \in Gets) \in BOOLEAN
    OBVIOUS
  <2> QED
    BY <1>2, <2>1, Zenon
<1>5. SeenStates[c] = "idle" /\ SeenStates' = [SeenStates EXCEPT ![c] = "running"]
  BY <1>2, <1>3 DEF SeenStates
<1>6. Caller!Ask(c)
  BY <1>1, <1>4, <1>5, Zenon DEF Caller!Ask, SeenStates, SeenSafe
<1> QED
  BY <1>6 DEF Caller!Next

LEMMA ProcessIsCallerStep ==
  ASSUME CallInv, NEW c \in Calls, NEW k \in 1..MaxTries, Process(c, k)
  PROVE  Caller!Next
<1>1. CallState(c) # "idle"
  BY DEF Process, CallState, CallInv, TriesInv
<1>2. op[c] \in Gets \/ done[c] = {}
  BY DEF Process, CallInv, TriesInv
<1>3. SeenStates' = SeenStates /\ SeenSafe' = SeenSafe
  BY DEF Process, SeenStates, SeenSafe, CallState
<1>4. Caller!Process(c, k)
  BY <1>1, <1>2, <1>3 DEF Caller!Process, Process, SeenStates, SeenSafe
<1> QED
  BY <1>4 DEF Caller!Next

\* A method of InternetUtil, with its repeats, its closes and the garbage they
\* leave, is to its caller an exchange that happens or fails.
THEOREM ImplementsExchange == Spec => CallerSpec
<1>1. CallInv /\ CallInv' /\ [Next]_vars => [Caller!Next]_(Caller!vars)
  <2> SUFFICES ASSUME CallInv, CallInv', [Next]_vars
               PROVE  [Caller!Next]_(Caller!vars)
    OBVIOUS
  <2>1. CASE UNCHANGED vars
    BY <2>1 DEF vars, Caller!vars, CallState
  <2> QED
    BY <2>1, RunIsCallerStep, CallIsCallerStep, ProcessIsCallerStep DEF Next
<1> QED
  BY <1>1, InitCaller, CallInvariance, PTL DEF Spec, CallerSpec, Caller!Spec
=============================================================================
