------------------------------ MODULE HttpCall ------------------------------
(***************************************************************************)
(* The four methods of InternetUtil that talk HTTP: get, post, postFile    *)
(* and getAndSaveFile.  Each makes a client of its own, executes one       *)
(* request, reads the answer in a try, and closes first the response and   *)
(* then the client in its finally.  An exception of a close takes the      *)
(* place of what the try had, and the client is not closed if closing the  *)
(* response throws.  The FileOutputStream of getAndSaveFile is never       *)
(* closed: what nobody closes stays open until the garbage collector finds *)
(* it, and all calls share the descriptors of the process.                 *)
(*                                                                         *)
(* A close is modelled by its signature, which allows an IOException;      *)
(* httpclient 4.5.2 as built logs it and does not throw.                   *)
(***************************************************************************)
EXTENDS Naturals, FiniteSets

CONSTANTS
  Calls,     \* calls, by any threads of the JVM
  MaxTries,  \* transmissions of a request the client makes at most (4)
  MaxOpen    \* descriptors of the process

ASSUME CallsAssumption == IsFiniteSet(Calls)
ASSUME TriesAssumption == MaxTries \in Nat \ {0}
ASSUME OpenAssumption == MaxOpen \in Nat

VARIABLES
  pc,      \* where the call is
  op,      \* the method
  result,  \* what it returns or throws, as far as it knows
  try,     \* the number of the transmission
  conn,    \* its client holds a connection
  stream,  \* its FileOutputStream is open
  framed,  \* the answer says where its body ends, by a length or in chunks
  body,    \* what the call, or the tmp file, has of the body
  sent,    \* transmissions that went out in full
  done     \* those the peer processed

vars == <<pc, op, result, try, conn, stream, framed, body, sent, done>>

Ops == {"get", "post", "postFile", "save"}
Gets == {"get", "save"}
PCs == {"idle", "build", "execute", "send", "wait", "entity", "copy",
        "response", "client", "returned", "stuck"}

Init ==
  /\ pc = [c \in Calls |-> "idle"]
  /\ op = [c \in Calls |-> "none"]
  /\ result = [c \in Calls |-> "none"]
  /\ try = [c \in Calls |-> 1]
  /\ conn = [c \in Calls |-> FALSE]
  /\ stream = [c \in Calls |-> FALSE]
  /\ framed = [c \in Calls |-> FALSE]
  /\ body = [c \in Calls |-> "none"]
  /\ sent = [c \in Calls |-> {}]
  /\ done = [c \in Calls |-> {}]

Goto(c, label) == pc' = [pc EXCEPT ![c] = label]

\* The rest of the try is skipped, and finally begins at the given close.
Throw(c, e, label) ==
  /\ result' = [result EXCEPT ![c] = e]
  /\ Goto(c, label)

\* Descriptors that are open.
Open == Cardinality({c \in Calls : conn[c]}) + Cardinality({c \in Calls : stream[c]})

------------------------------------------------------------------------------
(* The request.                                                            *)

Call(c) ==
  /\ pc[c] = "idle"
  /\ \E o \in Ops : op' = [op EXCEPT ![c] = o]
  /\ Goto(c, "build")
  /\ UNCHANGED <<result, try, conn, stream, framed, body, sent, done>>

\* The request is made from its url and its parameters, or they are no good.
Build(c) ==
  /\ pc[c] = "build"
  /\ \/ Goto(c, "execute") /\ UNCHANGED result
     \/ Throw(c, "RuntimeException", "client")
  /\ UNCHANGED <<op, try, conn, stream, framed, body, sent, done>>

Connect(c) ==
  /\ pc[c] = "execute" /\ Open < MaxOpen
  /\ conn' = [conn EXCEPT ![c] = TRUE]
  /\ Goto(c, "send")
  /\ UNCHANGED <<op, result, try, stream, framed, body, sent, done>>

Send(c) ==
  /\ pc[c] = "send"
  /\ sent' = [sent EXCEPT ![c] = @ \cup {try[c]}]
  /\ Goto(c, "wait")
  /\ UNCHANGED <<op, result, try, conn, stream, framed, body, done>>

\* The default retry handler of the client: a GET, or a request that did not
\* go out in full.
MayRetry(c) == try[c] < MaxTries /\ (op[c] \in Gets \/ pc[c] # "wait")

\* An IOException while it connects, for want of a descriptor too, while it
\* sends, or while it waits: the connection is given up, and if it may the
\* client tries again, as number n.
FailsOrRepeats(c, may, n) ==
  /\ pc[c] \in {"execute", "send", "wait"}
  /\ conn' = [conn EXCEPT ![c] = FALSE]
  /\ \/ may /\ try' = [try EXCEPT ![c] = n] /\ Goto(c, "execute") /\ UNCHANGED result
     \/ Throw(c, "FioraException", "client") /\ UNCHANGED try
  /\ UNCHANGED <<op, stream, framed, body, sent, done>>

\* Mutant: the client does not count.
ExecuteFailsUncounted(c) == FailsOrRepeats(c, MayRetry(c), try[c])

\* Mutant: a client that repeats whatever failed.
ExecuteFailsRepeatsAll(c) == FailsOrRepeats(c, TRUE, try[c] + 1)

ExecuteFails(c) == FailsOrRepeats(c, MayRetry(c), try[c] + 1)

\* The head of the answer to the last transmission: response is not null.
Respond(c) ==
  /\ pc[c] = "wait" /\ try[c] \in done[c]
  /\ \E says \in BOOLEAN : framed' = [framed EXCEPT ![c] = says]
  /\ Goto(c, "entity")
  /\ UNCHANGED <<op, result, try, conn, stream, body, sent, done>>

------------------------------------------------------------------------------
(* The answer.                                                             *)

\* The end of the input: that of the body, or, of a body that does not say where it
\* ends, where the connection was closed, be it too early.
ReadsToEnd(c) ==
  \E w \in {"part", "whole"} :
    /\ framed[c] => w = "whole"
    /\ body' = [body EXCEPT ![c] = w]

\* EntityUtils.toString has seen the end; return waits for finally.
ReadEntity(c) ==
  /\ pc[c] = "entity" /\ op[c] # "save"
  /\ ReadsToEnd(c)
  /\ Throw(c, "answer", "response")
  /\ UNCHANGED <<op, try, conn, stream, framed, sent, done>>

\* The connection breaks before the end of the body is seen, or the file cannot be
\* opened, for want of a descriptor too.
EntityFails(c) ==
  /\ pc[c] = "entity"
  /\ Throw(c, "FioraException", "response")
  /\ UNCHANGED <<op, try, conn, stream, framed, body, sent, done>>

\* An answer without a body has no entity.
NoEntity(c) ==
  /\ pc[c] = "entity"
  /\ Throw(c, "RuntimeException", "response")
  /\ UNCHANGED <<op, try, conn, stream, framed, body, sent, done>>

OpenFile(c) ==
  /\ pc[c] = "entity" /\ op[c] = "save" /\ Open < MaxOpen
  /\ stream' = [stream EXCEPT ![c] = TRUE]
  /\ body' = [body EXCEPT ![c] = "part"]
  /\ Goto(c, "copy")
  /\ UNCHANGED <<op, result, try, conn, framed, sent, done>>

\* The copy loop has seen the end, and the input is closed.
CopyFile(c) ==
  /\ pc[c] = "copy"
  /\ ReadsToEnd(c)
  /\ Throw(c, "answer", "response")
  /\ UNCHANGED <<op, try, conn, stream, framed, sent, done>>

\* The connection breaks, the disk is full, or closing the input throws.
CopyFails(c) ==
  /\ pc[c] = "copy"
  /\ \E w \in {"part", "whole"} : body' = [body EXCEPT ![c] = w]
  /\ Throw(c, "FioraException", "response")
  /\ UNCHANGED <<op, try, conn, stream, framed, sent, done>>

------------------------------------------------------------------------------
(* finally                                                                 *)

CloseResponse(c) ==
  /\ pc[c] = "response"
  /\ Goto(c, "client")
  /\ UNCHANGED <<op, result, try, conn, stream, framed, body, sent, done>>

\* Mutant: the exception of the close is logged.
CloseResponseFailsQuietly(c) ==
  /\ pc[c] = "response"
  /\ Goto(c, "returned")
  /\ UNCHANGED <<op, result, try, conn, stream, framed, body, sent, done>>

CloseResponseFails(c) ==
  /\ pc[c] = "response"
  /\ Throw(c, "FioraException", "returned")
  /\ UNCHANGED <<op, try, conn, stream, framed, body, sent, done>>

\* Mutant: finally returns the answer it does not have.
CloseClientAnswers(c) ==
  /\ pc[c] = "client"
  /\ conn' = [conn EXCEPT ![c] = FALSE]
  /\ Throw(c, "answer", "returned")
  /\ UNCHANGED <<op, try, stream, framed, body, sent, done>>

CloseClient(c) ==
  /\ pc[c] = "client"
  /\ conn' = [conn EXCEPT ![c] = FALSE]
  /\ Goto(c, "returned")
  /\ UNCHANGED <<op, result, try, stream, framed, body, sent, done>>

CloseClientFails(c) ==
  /\ pc[c] = "client"
  /\ Throw(c, "FioraException", "returned")
  /\ UNCHANGED <<op, try, conn, stream, framed, body, sent, done>>

------------------------------------------------------------------------------
(* The peer and the JVM.                                                   *)

\* The peer processes a transmission, in its own time.
Process(c, k) ==
  /\ k \in sent[c] \ done[c]
  /\ done' = [done EXCEPT ![c] = @ \cup {k}]
  /\ UNCHANGED <<pc, op, result, try, conn, stream, framed, body, sent>>

\* No timeout is set: a peer that stays silent holds the call for ever.
NeverReturns(c) ==
  /\ pc[c] \in {"send", "wait", "entity", "copy"}
  /\ Goto(c, "stuck")
  /\ UNCHANGED <<op, result, try, conn, stream, framed, body, sent, done>>

\* What a call that is over left open is closed by the finalizers of the stream
\* and of the connection manager, if the collector ever gets to them.
Collect(c) ==
  /\ pc[c] = "returned" /\ (conn[c] \/ stream[c])
  /\ conn' = [conn EXCEPT ![c] = FALSE]
  /\ stream' = [stream EXCEPT ![c] = FALSE]
  /\ UNCHANGED <<pc, op, result, try, framed, body, sent, done>>

Run(c) ==
  \/ Build(c) \/ Connect(c) \/ Send(c) \/ ExecuteFails(c) \/ Respond(c)
  \/ ReadEntity(c) \/ EntityFails(c) \/ NoEntity(c)
  \/ OpenFile(c) \/ CopyFile(c) \/ CopyFails(c)
  \/ CloseResponse(c) \/ CloseResponseFails(c)
  \/ CloseClient(c) \/ CloseClientFails(c)

Next ==
  \E c \in Calls :
    \/ Call(c) \/ Run(c) \/ NeverReturns(c) \/ Collect(c)
    \/ \E k \in 1..MaxTries : Process(c, k)

Spec == Init /\ [][Next]_vars

\* The thread of a call goes on.  The peer owes nothing, and nor does the collector:
\* what it does not get to stays open.
FairSpec == Spec /\ \A c \in Calls : WF_vars(Run(c))

------------------------------------------------------------------------------
(* Properties.                                                             *)

\* Type correctness of calls, descriptors and transmissions.
TypeOK ==
  /\ pc \in [Calls -> PCs]
  /\ op \in [Calls -> Ops \cup {"none"}]
  /\ result \in [Calls -> {"none", "answer", "FioraException", "RuntimeException"}]
  /\ try \in [Calls -> 1..MaxTries]
  /\ conn \in [Calls -> BOOLEAN]
  /\ stream \in [Calls -> BOOLEAN]
  /\ framed \in [Calls -> BOOLEAN]
  /\ body \in [Calls -> {"none", "part", "whole"}]
  /\ sent \in [Calls -> SUBSET (1..MaxTries)]
  /\ done \in [Calls -> SUBSET (1..MaxTries)]
  /\ Open <= MaxOpen

\* What the try and the client's own repeats hold to.
TriesInv ==
  \A c \in Calls :
    /\ done[c] \subseteq sent[c]
    /\ pc[c] = "idle" => sent[c] = {} /\ op[c] = "none"
    /\ pc[c] # "idle" => op[c] \in Ops
    /\ op[c] \notin Gets =>
         /\ pc[c] \in {"build", "execute", "send"} => sent[c] = {}
         /\ sent[c] \subseteq {try[c]}
    /\ pc[c] \in {"entity", "copy"} => try[c] \in done[c]

\* A POST reaches the peer once at most, however often the client transmits: what
\* makes a retry of addDZ the business of the caller alone.
PostAtMostOnce ==
  \A c \in Calls : op[c] \notin Gets => Cardinality(sent[c]) <= 1

\* A call that has an answer got it from a peer that processed that very
\* transmission, has all of a body that says where it ends, in its file if it saves
\* one, and returns it only with the connection given back: an exception in finally
\* takes its place.
AnswerIsWhole ==
  \A c \in Calls :
    result[c] = "answer" =>
      /\ pc[c] \in {"response", "client", "returned"}
      /\ try[c] \in done[c]
      /\ framed[c] => body[c] = "whole"
      /\ pc[c] = "returned" => ~conn[c]

\* Every call ends, with an answer or an exception, unless its peer is silent: one
\* that finds every descriptor in use, be it by streams that nobody closed, fails.
EventuallyReturns ==
  \A c \in Calls : (pc[c] = "build") ~> (pc[c] \in {"returned", "stuck"})

\* Seen by the caller, a call does what Exchange says.
CallState(c) ==
  IF pc[c] = "idle" THEN "idle"
  ELSE IF pc[c] # "returned" THEN "running"
  ELSE IF result[c] = "answer" THEN "answer" ELSE "error"

Caller == INSTANCE Exchange WITH
  Attempts <- 1..MaxTries,
  state <- [c \in Calls |-> CallState(c)],
  safe <- [c \in Calls |-> op[c] \in Gets],
  runs <- done
CallerSpec == Caller!Spec
=============================================================================
