----------------------------- MODULE UserFetch -----------------------------
(***************************************************************************)
(* The HTTP side of fiora: APIController.dispatch and HDDispatcher.handle  *)
(* run FetchService.userFetch(start, end) in a thread of the server for    *)
(* every request.  It walks over the user ids of a second site, saves the  *)
(* portrait of each user in one tmp directory that all requests share,     *)
(* registers the user in JAX with that file, and deletes it.               *)
(*                                                                         *)
(* No status of an answer is looked at, and a page is cut wherever its     *)
(* markers seem to be: what is saved and posted is the body of whatever    *)
(* answer the GET got, a portrait or not.                                  *)
(*                                                                         *)
(* The file name is the clock plus a random number, so that requests may   *)
(* draw the same one.  The ints of Java are -Half..Half-1.                 *)
(***************************************************************************)
EXTENDS Integers, FiniteSets, Sequences

CONSTANTS
  Requests,     \* the HTTP requests of a run
  Half,         \* half the number of ints (2^31 in the code)
  Asks,         \* what clients send
  Page,         \* Page[n]: what the site shows for user n
  Cwds,         \* may the JVM be started inside the tmp directory, and outside?
  Spread,       \* the random part of a name is in 0..Spread-1 (1000 in the code)
  MaxTime,      \* bound: the clock stops there
  None          \* no file, no name

MinInt == -Half
MaxInt == Half - 1
Ints == MinInt..MaxInt

\* "default" is a page whose url the code takes for the default portrait's.  A
\* "user" page holds the portrait and the link; "noTag" lacks the tag of the
\* portrait and maybe the link too, "noLink" only the link, and the code cuts a url
\* or a name out of them where none is; "broken" makes it throw.
Pages == {"missing", "default", "user", "noTag", "noLink", "broken"}
TakenForUser == {"user", "noTag", "noLink"}

Ranges == [start : Ints, end : Ints]
Names == 0..(MaxTime + Spread - 1)

\* A body copied to a file: for which user it was fetched, and whether it is his
\* portrait whole.  If not, it is the page of an error status, a body that broke
\* off where the peer closed, or whatever was at a url that is no portrait's.
Bodies == [of : Ints, own : BOOLEAN]

\* The fields of a form; None are args that hold no start and end.
Fields ==
  [field : {"args"}, value : Ranges \cup {None}]
  \cup [field : STRING \ {"args"}, value : STRING]

ASSUME IntAssumption == Half \in Nat \ {0}
ASSUME PageAssumption == Page \in [Ints -> Pages]
ASSUME AsksAssumption ==
  \A q \in Asks :
    /\ q.param \in [act : STRING, uid : {"absent", "int", "bad"}, args : Ranges \cup {None}]
    /\ q.parts \in Seq(Fields)
ASSUME ClockAssumption == Spread \in Nat \ {0} /\ MaxTime \in Nat
ASSUME CwdAssumption == Cwds \subseteq BOOLEAN /\ Cwds # {}
ASSUME NoneAssumption == None \notin Names

VARIABLES
  \* the threads of the requests
  pc,       \* what the thread does next
  ask,      \* what the client sent, if it could be made out
  args,     \* start and end
  id,       \* the loop variable
  count,    \* the users answered for
  file,     \* name of the last tmp file
  linked,   \* the open file is still the one of that name
  answer,   \* what the client gets
  \* the machine
  now,      \* System.currentTimeMillis
  inTmpDir, \* the JVM runs inside the tmp directory
  tmp,      \* tmp[n]: the bodies that are in file n, or None
  \* JAX
  users,    \* registrations: for which id, with what portrait, by which request
  \* history
  served,   \* users JAX answered the request for
  drawn     \* names the request drew

threadVars == <<pc, ask, args, id, count, file, linked, answer>>
vars == <<threadVars, now, inTmpDir, tmp, users, served, drawn>>

PCs == {"idle", "page", "draw", "open", "write", "post", "clean", "answered", "stuck"}
Answers == {"none", "SUCCESS", "FAILURE", "lost"}

Init ==
  /\ pc = [r \in Requests |-> "idle"]
  /\ ask = [r \in Requests |-> None]
  /\ args = [r \in Requests |-> [start |-> 0, end |-> 0]]
  /\ id = [r \in Requests |-> 0]
  /\ count = [r \in Requests |-> 0]
  /\ file = [r \in Requests |-> None]
  /\ linked = [r \in Requests |-> FALSE]
  /\ answer = [r \in Requests |-> "none"]
  /\ now = 0
  /\ inTmpDir \in Cwds
  /\ tmp = [n \in Names |-> None]
  /\ users = {}
  /\ served = [r \in Requests |-> {}]
  /\ drawn = [r \in Requests |-> {}]

Goto(r, label) == pc' = [pc EXCEPT ![r] = label]

\* Mutant: the loop variable is a long.
IncLong(n) == n + 1

\* n++ on an int.
Inc(n) == IF n = MaxInt THEN MinInt ELSE n + 1

\* Mutant: end is left out.
InLoopExclusive(r) == id[r] < args[r].end

InLoop(r) == id[r] <= args[r].end

\* The request ends and the client gets a, or nothing if the flush fails.
Answer(r, a) ==
  /\ Goto(r, "answered")
  /\ answer' \in {[answer EXCEPT ![r] = a], [answer EXCEPT ![r] = "lost"]}

\* Whatever handle throws: dispatch logs it and answers FAILURE.  Nobody deletes
\* the tmp file.
Fail(r) ==
  /\ Answer(r, "FAILURE")
  /\ UNCHANGED <<ask, args, id, count, file, linked>>

------------------------------------------------------------------------------
(* dispatch and handle.                                                    *)

\* Mutant: form fields do not count if there is a parameter.
MergedParamsFirst(q) == q.param

\* The parameters of the request, and then its form fields in their order, each
\* over what was there.
Merged(q) ==
  LET m[i \in 0..Len(q.parts)] ==
        IF i = 0 THEN q.param
        ELSE IF q.parts[i].field \in {"act", "uid", "args"}
             THEN [m[i - 1] EXCEPT ![q.parts[i].field] = q.parts[i].value]
             ELSE m[i - 1]
  IN  m[Len(q.parts)]

\* Every uid that is there is parsed, whether or not a later one replaces it; the
\* act must name the bean and its method, and the args a start and an end.
WellFormed(q) ==
  /\ q.param.uid # "bad"
  /\ \A i \in 1..Len(q.parts) : q.parts[i].field = "uid" => q.parts[i].value = "int"
  /\ Merged(q).act = "fetch.userFetch"
  /\ Merged(q).args # None

Dispatch(r) ==
  /\ pc[r] = "idle"
  /\ \E q \in Asks :
       /\ WellFormed(q)
       /\ ask' = [ask EXCEPT ![r] = q]
       /\ args' = [args EXCEPT ![r] = Merged(q).args]
       /\ id' = [id EXCEPT ![r] = Merged(q).args.start]
  /\ Goto(r, "page")
  /\ UNCHANGED <<count, file, linked, answer, now, inTmpDir, tmp, users, served, drawn>>

\* No act, no args, an unknown bean or method, a uid, start or end that is no
\* int, or an upload that breaks off.
BadRequest(r) ==
  /\ pc[r] = "idle"
  /\ \E q \in Asks : ~WellFormed(q) \/ q.parts # <<>>
  /\ Fail(r)
  /\ UNCHANGED <<now, inTmpDir, tmp, users, served, drawn>>

\* The loop is over: the client is told the count.
Respond(r) ==
  /\ pc[r] = "page" /\ ~InLoop(r)
  /\ Answer(r, "SUCCESS")
  /\ UNCHANGED <<ask, args, id, count, file, linked, now, inTmpDir, tmp, users, served, drawn>>

------------------------------------------------------------------------------
(* The body of the loop.                                                   *)

\* No such user, or one without a portrait.
SkipUser(r) ==
  /\ pc[r] = "page" /\ InLoop(r)
  /\ Page[id[r]] \in {"missing", "default"}
  /\ id' = [id EXCEPT ![r] = Inc(@)]
  /\ UNCHANGED <<pc, ask, args, count, file, linked, answer, now, inTmpDir, tmp, users, served, drawn>>

\* The page is cut: a url and a name, the user's or what lies at the wrong place.
FindUser(r) ==
  /\ pc[r] = "page" /\ InLoop(r)
  /\ Page[id[r]] \in TakenForUser
  /\ Goto(r, "draw")
  /\ UNCHANGED <<ask, args, id, count, file, linked, answer, now, inTmpDir, tmp, users, served, drawn>>

\* The GET fails, or the page lacks what the code cannot cut without: the part
\* after the marker of the head, a quote after the url, a tag after the name.
PageFails(r) ==
  /\ pc[r] = "page" /\ InLoop(r)
  /\ Fail(r)
  /\ UNCHANGED <<now, inTmpDir, tmp, users, served, drawn>>

\* getAndSaveFile: the name is made first, then the GET goes out.
DrawName(r) ==
  /\ pc[r] = "draw"
  /\ \E k \in 0..(Spread - 1) :
       /\ file' = [file EXCEPT ![r] = now + k]
       /\ drawn' = [drawn EXCEPT ![r] = @ \cup {now + k}]
  /\ Goto(r, "open")
  /\ UNCHANGED <<ask, args, id, count, linked, answer, now, inTmpDir, tmp, users, served>>

\* Mutant: the file is posted before it is written.
OpenAndPost(r) ==
  /\ pc[r] = "open"
  /\ tmp' = [tmp EXCEPT ![file[r]] = {}]
  /\ linked' = [linked EXCEPT ![r] = TRUE]
  /\ Goto(r, "post")
  /\ UNCHANGED <<ask, args, id, count, file, answer, now, inTmpDir, users, served, drawn>>

\* An answer arrives, of whatever status: the file is created, or truncated.
OpenFile(r) ==
  /\ pc[r] = "open"
  /\ tmp' = [tmp EXCEPT ![file[r]] = {}]
  /\ linked' = [linked EXCEPT ![r] = TRUE]
  /\ Goto(r, "write")
  /\ UNCHANGED <<ask, args, id, count, file, answer, now, inTmpDir, users, served, drawn>>

\* The copy loop is through, with the portrait only if the page showed one; the
\* bytes are lost if the name was deleted.
WriteFile(r) ==
  /\ pc[r] = "write"
  /\ \E own \in BOOLEAN :
       /\ own => Page[id[r]] \in {"user", "noLink"}
       /\ tmp' = IF linked[r]
                 THEN [tmp EXCEPT ![file[r]] = @ \cup {[of |-> id[r], own |-> own]}]
                 ELSE tmp
  /\ Goto(r, "post")
  /\ UNCHANGED <<ask, args, id, count, file, linked, answer, now, inTmpDir, users, served, drawn>>

\* The url is none a GET can go to, the answer has no body, or the GET fails,
\* before the file is opened or while it is copied.
SaveFails(r) ==
  /\ pc[r] \in {"open", "write"}
  /\ Fail(r)
  /\ UNCHANGED <<now, inTmpDir, tmp, users, served, drawn>>

\* postFile opens the bare name, in the directory the JVM runs in.
FileFound(r) == inTmpDir /\ tmp[file[r]] # None

\* JAX takes the user.
Register(r) ==
  users' = users \cup {[req |-> r, user |-> id[r], portrait |-> tmp[file[r]]]}

\* addMachineUser returns, or throws the ErrorResponseException that the loop
\* logs: it goes on either way.
PostFile(r) ==
  /\ pc[r] = "post" /\ FileFound(r)
  /\ Register(r) \/ UNCHANGED users
  /\ served' = [served EXCEPT ![r] = @ \cup {id[r]}]
  /\ Goto(r, "clean")
  /\ UNCHANGED <<ask, args, id, count, file, linked, answer, now, inTmpDir, tmp, drawn>>

\* The file is not found, the call fails, or its answer does not parse; in the
\* last two cases JAX may have taken the user.
PostFails(r) ==
  /\ pc[r] = "post"
  /\ UNCHANGED users \/ (FileFound(r) /\ Register(r))
  /\ Fail(r)
  /\ UNCHANGED <<now, inTmpDir, tmp, served, drawn>>

\* Mutant: the name that is deleted lacks the directory.
CleanTmpFileNowhere(r) ==
  /\ pc[r] = "clean"
  /\ id' = [id EXCEPT ![r] = Inc(@)]
  /\ count' = [count EXCEPT ![r] = Inc(@)]
  /\ Goto(r, "page")
  /\ UNCHANGED <<ask, args, file, linked, answer, now, inTmpDir, tmp, users, served, drawn>>

\* Mutant: the id is not advanced.
CleanTmpFileSameUser(r) ==
  /\ pc[r] = "clean"
  /\ tmp' = [tmp EXCEPT ![file[r]] = None]
  /\ count' = [count EXCEPT ![r] = Inc(@)]
  /\ Goto(r, "page")
  /\ UNCHANGED <<ask, args, id, file, linked, answer, now, inTmpDir, users, served, drawn>>

\* cleanTmpFile, whoever wrote the file, and the next id.
CleanTmpFile(r) ==
  /\ pc[r] = "clean"
  /\ tmp' = [tmp EXCEPT ![file[r]] = None]
  /\ linked' = [q \in Requests |-> linked[q] /\ file[q] # file[r]]
  /\ id' = [id EXCEPT ![r] = Inc(@)]
  /\ count' = [count EXCEPT ![r] = Inc(@)]
  /\ Goto(r, "page")
  /\ UNCHANGED <<ask, args, file, answer, now, inTmpDir, users, served, drawn>>

------------------------------------------------------------------------------
(* The machine.                                                            *)

\* A GET or POST without a timeout never comes back.
CallNeverReturns(r) ==
  /\ \/ pc[r] = "page" /\ InLoop(r)
     \/ pc[r] \in {"open", "write", "post"}
  /\ Goto(r, "stuck")
  /\ UNCHANGED <<ask, args, id, count, file, linked, answer, now, inTmpDir, tmp, users, served, drawn>>

Tick ==
  /\ now < MaxTime
  /\ now' = now + 1
  /\ UNCHANGED <<threadVars, inTmpDir, tmp, users, served, drawn>>

\* The JVM is stopped, and started from some directory: the tmp files stay.
Restart ==
  /\ \E r \in Requests : pc[r] \notin {"idle", "answered"}
  /\ pc' = [r \in Requests |-> IF pc[r] = "idle" THEN "idle" ELSE "answered"]
  /\ answer' = [r \in Requests |->
       IF pc[r] \in {"idle", "answered"} THEN answer[r] ELSE "lost"]
  /\ linked' = [r \in Requests |-> FALSE]
  /\ inTmpDir' \in Cwds
  /\ UNCHANGED <<ask, args, id, count, file, now, tmp, users, served, drawn>>

Run(r) ==
  \/ Respond(r)
  \/ SkipUser(r) \/ FindUser(r) \/ PageFails(r)
  \/ DrawName(r) \/ OpenFile(r) \/ WriteFile(r) \/ SaveFails(r)
  \/ PostFile(r) \/ PostFails(r) \/ CleanTmpFile(r)

Next ==
  \/ \E r \in Requests :
       Dispatch(r) \/ BadRequest(r) \/ Run(r) \/ CallNeverReturns(r)
  \/ Tick \/ Restart

Spec == Init /\ [][Next]_vars

\* The thread of a request goes on until it answers; clients, the clock and the
\* operator owe nothing.
FairSpec == Spec /\ \A r \in Requests : WF_vars(Run(r))

------------------------------------------------------------------------------
(* Properties.                                                             *)

\* Type correctness of the requests, the tmp directory and the registrations.
TypeOK ==
  /\ pc \in [Requests -> PCs]
  /\ ask \in [Requests -> Asks \cup {None}]
  /\ args \in [Requests -> Ranges]
  /\ inTmpDir \in BOOLEAN
  /\ id \in [Requests -> Ints]
  /\ count \in [Requests -> Ints]
  /\ file \in [Requests -> Names \cup {None}]
  /\ linked \in [Requests -> BOOLEAN]
  /\ answer \in [Requests -> Answers]
  /\ now \in 0..MaxTime
  /\ tmp \in [Names -> (SUBSET Bodies) \cup {None}]
  /\ users \subseteq [req : Requests, user : Ints, portrait : SUBSET Bodies]
  /\ served \in [Requests -> SUBSET Ints]
  /\ drawn \in [Requests -> SUBSET Names]

\* The file holds one body, the answer to the GET for user n.
AnswerFor(n, bodies) == \E own \in BOOLEAN : bodies = {[of |-> n, own |-> own]}

\* JAX gets for a user the body of the answer that was got for him, one and no
\* other, unless another request drew the same file name: nothing that fails, is
\* killed or overlaps mixes two users up or leaves a file empty.  That the body is
\* his portrait is more than the code knows.
PortraitFromOwnAnswer ==
  \A u \in users :
    ~AnswerFor(u.user, u.portrait) =>
      \E q \in Requests \ {u.req} : drawn[q] \cap drawn[u.req] # {}

\* No other request drew a name that r drew.
CollisionFree(r) == \A q \in Requests \ {r} : drawn[q] \cap drawn[r] = {}

\* What a request whose names are its own knows of its file, however the others
\* run: it is empty when the copy starts, and holds its answer when it is sent.
OwnFile(r) ==
  /\ pc[r] \in {"open", "write", "post", "clean"} => file[r] \in drawn[r]
  /\ CollisionFree(r) =>
       /\ pc[r] = "write" => linked[r] /\ tmp[file[r]] = {}
       /\ pc[r] = "post" => AnswerFor(id[r], tmp[file[r]])

\* What the proof needs of the types: which arguments the functions have.
ShapeOK ==
  /\ pc \in [Requests -> PCs]
  /\ id = [r \in Requests |-> id[r]]
  /\ file \in [Requests -> Names \cup {None}]
  /\ linked \in [Requests -> BOOLEAN]
  /\ now \in 0..MaxTime
  /\ tmp = [n \in Names |-> tmp[n]]
  /\ drawn \in [Requests -> SUBSET Names]

\* The inductive invariant behind PortraitFromOwnAnswer.
PortraitIInv ==
  /\ ShapeOK
  /\ \A r \in Requests : OwnFile(r)
  /\ \A u \in users : u.req \in Requests
  /\ PortraitFromOwnAnswer

\* A file that nobody works on was left by a request that did not end well:
\* a request that answers SUCCESS leaves the tmp directory as it found it.
LeaksOnlyByFailure ==
  \A n \in Names :
    tmp[n] # None =>
      \E r \in Requests :
        /\ file[r] = n
        /\ \/ pc[r] \in {"write", "post", "clean", "stuck"}
           \/ answer[r] \in {"FAILURE", "lost"}

\* The int a number of users is counted to: more than MaxInt of them wrap.
Counted(n) == IF n <= MaxInt THEN n ELSE n - 2 * Half

UsersIn(S) == {n \in S : Page[n] \in TakenForUser}

\* The range the client asked for: the last form field of that name, or else the
\* parameter.
Wanted(q) ==
  LET given == {i \in 1..Len(q.parts) : q.parts[i].field = "args"}
  IN  IF given = {} THEN q.param.args
      ELSE q.parts[CHOOSE i \in given : \A k \in given : k <= i].value

\* A request has asked JAX for exactly those ids of the range it is past whose pages
\* the code takes for a user's, in order, and SUCCESS says all of them, whatever JAX
\* answered; its count is that of an int, negative for more than MaxInt users; the
\* one end this does not hold for is the largest int.
ServesRangeInOrder ==
  \A r \in Requests :
    ask[r] # None =>
      LET w == Wanted(ask[r])
          Past == UsersIn(w.start .. (id[r] - 1))
      IN  w.end # MaxInt =>
            /\ Past \subseteq served[r] /\ served[r] \subseteq Past \cup {id[r]}
            /\ count[r] = Counted(Cardinality(Past))
            /\ answer[r] = "SUCCESS" => served[r] = UsersIn(w.start .. w.end)

\* Every request whose end is not the largest int is answered, or hangs in a
\* call, however the others fare.
EventuallyAnswered ==
  \A r \in Requests :
    (pc[r] = "page" /\ args[r].end # MaxInt) ~> (pc[r] \in {"answered", "stuck"})
=============================================================================
