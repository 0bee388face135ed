# fiora in TLA+

fiora is a crawler with a small HTTP API.  It copies short posts ("dz", duanzi)
and their comments from a public site into a server called JAX, and registers
users with their portraits there.  This directory holds TLA+ models of it, the
TLC configurations that check them, and proofs for TLAPS.  Paths below are
relative to the repository; `J/` stands for `src/main/java/com/j13/fiora/`.
The repository has no tests and no documentation of its own beyond comments, log
messages and the messages of the service script.

## 1. The system

    server-daemon.sh --launches--> JVM: ServerStarter -> JettyServer
                                     |            |
                       contextInitialized     /api requests
                        (FioraListener)      (APIController, HDDispatcher)
                                     |            |
                             fetch thread     FetchService.userFetch
                         (FetchTask, NHDZFetcher)  |   tmp directory
                                     |             |   (InternetUtil)
                           GET site, POST JAX   GET site, POST JAX

| Component | Source | State | Operations | What is hard |
|---|---|---|---|---|
| Import loop | `J/core/FetchTask.java`, `J/fetcher/NHDZFetcher.java`, `J/fetcher/DZ.java` | locals of one pass: ids, parsed records, position, the id JAX gave the record | `fetch` = `getAndParseDZId`, `parsePerDZ`, `save`; sleep; for ever | failures in the middle of a pass, a retry of a call that may have succeeded, late requests, kills, two JVMs, calls without timeouts |
| JAX client | `J/fetcher/JaxManager.java`, `J/core/ResponseParser.java`, `J/api/jax/` | none | `addDZ`, `addRecentComment`, `addTopComment`, `addMachineUser` | three ways an answer ends: object, `ErrorResponseException`, `RuntimeException` |
| HTTP calls | `J/util/InternetUtil.java` | files of the tmp directory, one client per call, the descriptors of the process | `get`, `post`, `postFile`, `getAndSaveFile`, `cleanTmpFile` | repeats of the HTTP client, failures in `finally`, a stream that is never closed, no timeouts, names drawn from clock + random, relative names |
| User import | `J/service/FetchService.java` | loop variable and count of a request | `userFetch` | requests side by side in one directory, early returns, int overflow |
| Request dispatch | `J/controller/APIController.java`, `J/controller/HDDispatcher.java`, `J/core/RequestData.java` | none | `dispatch`, `handle` | parameters and form fields that name the same thing; every exception becomes FAILURE; the answer itself may be lost |
| Service script | `bin/server-daemon.sh` | pid file, process table | `start`, `stop` | check-then-act on the pid file, crashes, reused pids |
| Startup | `J/starter/`, `J/core/FioraListener.java`, `J/core/config/`, `J/core/WebApplicationContentHolder.java` | static singletons, Spring context, port | `main`, `init`, `start`, `contextInitialized`, `contextDestroyed`, the shutdown hook | fetch thread beside main and hook, a listener that fails, port taken, SIGTERM during the start, unsynchronised singletons |
| QSBK import | `J/fetcher/QSBKFetcher.java` | lists that outlive a pass | `fetch`, `loadInfo`, `save` | a page that fails half way, positions from `indexOf`; switched off in `FetchTask` |
| Plain data, digests, assets, build | `J/core/*Constants.java`, `J/util/MD5Encrypt.java`, `src/main/webapp`, `pom.xml`, ... | none | | not modelled |

Interactions: the fetch thread and the request threads share the JVM, its
`PropertiesConfiguration` and `WebApplicationContentHolder`, and JAX; requests
share the tmp directory with each other; the script and the JVM share only the
process table.  There are no locks, queues, timeouts or persistent state in the
JVM: all that survives a restart is in JAX's tables, in the tmp directory and in
the pid file, which is where the properties look.

What makes each part correct:

- Import loop: no comment ends up under another record's dz; a comment is
  filed under dz 0 only if JAX really refused its dz; a pass that goes on has
  skipped nothing; nothing is saved of a pass that could not read all its
  pages; the loop never ends by itself; once nothing fails, everything gets in.
- User import: what JAX gets for a user is what the site answered for that user,
  and no other's, no mixed and no empty file; the tmp directory is left as found; SUCCESS
  means every user of the range was offered to JAX.
- Script: never two JVMs, never a JVM that `stop` cannot reach, and what it
  prints is true.
- HTTP calls: an answer is the peer's answer to the last request that went out,
  and whole if it says where it ends; a POST goes out once; every call ends unless
  its peer is silent, however few descriptors are left.
- Startup: fetch thread and requests find configuration and Spring context
  there; a JVM comes up, whatever becomes of its web application; SIGTERM ends
  it wherever it is.  A JVM that does not get its port stays alive and imports:
  only an unrelated process may bring that about.

## 2. Modules

| Module | Models | Checked by | Proved in |
|---|---|---|---|
| `ImportedStore` | abstract specification: what the import promises about JAX's tables | `StoreSpec` | |
| `NHDZFetcher` | import loop, JAX client, failures of `InternetUtil`, JVM kills | `MCNHDZFetcher` | `NHDZFetcherProofs`, `NHDZListingProofs` |
| `UserFetch` | `userFetch`, the tmp directory, dispatch | `MCUserFetch` | `UserFetchProofs` |
| `PageCut` | how home page, dz page, user page and page of articles are cut | `MCPageCut` | `PageCutProofs`, `PageCutUserProofs` |
| `ServerDaemon` | `bin/server-daemon.sh` | `MCServerDaemon`, `MCDeployment` | `ServerDaemonProofs` |
| `Startup` | the life of a JVM: main thread, fetch thread, shutdown hook, port | `MCDeployment` | `DeploymentProofs` |
| `Deployment` | `ServerDaemon` and `Startup` on one machine | `MCDeployment` | `DeploymentProofs` |
| `Exchange` | abstract specification: what a call over HTTP promises | `CallerSpec` | `HttpCallProofs` |
| `HttpCall` | `get`, `post`, `postFile`, `getAndSaveFile` | `MCHttpCall` | `HttpCallProofs` |

Three refinements hold the modules together.  `NHDZFetcher` implements
`ImportedStore` (`Store`), `HttpCall` implements `Exchange` (`Caller`, which sees
of a call that it runs, has an answer or an error), and `Deployment`
implements `ServerDaemon` (`Script`): the life of a JVM is, to the script, a
process that is there until it is gone.  Definitions marked "Mutant" are
single changes a bug could make; no specification uses them.

### NHDZFetcher

One element of `Fetchers` is the fetch thread of one JVM.  `pc[f]` names what it
does next; the other local variables carry the names of the Java locals.

| pc | code |
|---|---|
| `list` | `getAndParseDZId`: `FetchList`, `GetFails` |
| `page`, `comments` | `parsePerDZ`, the GET of the page and of its comments: `PageMissing`, `PageParsed`, `CommentsParsed`, `GetFails`, `StartSave` at the end of the loop |
| `addDZ`, `retry` | the two nested `try` blocks of `NHDZFetcher.addDZ` |
| `recent`, `top` | the two comment loops: `PostComment`, `RecentDone`, `TopDone` |
| `sleep` | the `Thread.sleep` of `FetchTask.run`, reached by return (`EndPass`) or by an exception that `run` catches (`Throw`) |
| `stuck` | a call that never returns |
| `ended` | over by an exception that `run` does not catch: there is none, as its catch names `Exception` (`Caught`) |
| `error` | over by an `Error`, which no catch of `run` names |
| `down` | no JVM |

Each call and the handling of its answer is one step.  The answers of JAX are:
an id, an error code, an object with neither (the response class then keeps id
0), or no usable answer.  In the last case the request may be lost, or be
processed later, after the caller has gone on or died (`lateDz`,
`lateComments`).  `healthy` becomes TRUE when failures stop for good; it is only
used by the liveness properties.  `refused` is a history variable: what JAX
answered for without giving an id or storing a row.

JAX itself is not in the repository.  It is assumed to store a comment once, by
its id on the site (`NHDZFetcher` treats error code 2001 as "exists"); whether it
answers a known dz with its id or with an error code cannot be told from the
code, so both are checked (`ExistingIsError`).  With `ExistingIsError = TRUE`, a
first answer that is lost makes the retry an error code, and the comments of
the record are then filed under dz 0 for good: this is what
`OrphanOnlyAfterRefusal` allows, and no more.

A page is abstracted to what its parsing does: it is gone (`Gone`), always
fails to parse (`Broken`), or yields lists of comments.  Where the strings are
cut is `PageCut`.

### UserFetch

One element of `Requests` is one HTTP request with its Jetty thread.  A file is
the set of the bodies it holds, each with the user it was fetched for and whether it
is his portrait whole (`own`).  So the file JAX gets shows whether it is the right
one, empty or mixed, and also what the code never asks: `getAndSaveFile` looks at no
status and reads a body without a length to wherever it ends, so that `WriteFile`
may leave the page of an error or a part of the portrait, which is posted like any
other.  In the same way `FindUser` takes a page for a user's if it lacks the tag of
the portrait or the link (`TakenForUser`): the `-1` of `indexOf` plus the length of the
marker is a position like any other, and the request goes on with the url and the
name it finds there.  `PageFails` is for the pages the code cannot cut.  `OpenFile` and `WriteFile` are
separate steps, since two requests that drew one name may truncate, fill, post
and delete it in any order; `linked` is FALSE for a stream whose name was
deleted.  The name is the clock plus a random number, so `now + k` with
`k < Spread`: two requests within a second of each other may draw the same.
The ints of Java are `-Half..Half-1` (`Half` is 2^31 in the code); `id++` and
`count++` wrap in `Inc`.  `inTmpDir` says whether the
JVM runs in the tmp directory, which `Restart` chooses anew: `postFile` opens the
bare file name that `getAndSaveFile` returns, so the directory matters.  `Restart`
kills all requests and leaves the files.

What a client sends (`Asks`) is a record of its parameters and a sequence of form
fields.  `Merged` lays the fields over the parameters one by one, as `dispatch`
does, and `WellFormed` says when `dispatch` and `handle` get as far as the method:
a `uid` that is no int fails the request even if a later field replaces it.  The
`ask` a request came from is kept, so that `ServesRangeInOrder` can be stated of
the range the client asked for (`Wanted`), not of the one the code took.  It says
what the count is as an int can hold it (`Counted`): a range across zero may have
more users than the largest int, and is then answered with a negative count.

### ServerDaemon

One element of `Scripts` is a terminal; a call of the script takes one step per
command that touches the pid file or the process table.  `echo $! > file` is two
steps (create, fill), so that a `cat` in between finds an empty file.  `Crash`
ends a server past the script, `Reuse` gives free pids to unrelated processes.
`Overlap` says whether two calls may run at a time.  Killing the script itself
(Ctrl-C between the launch and the `echo`) is left out.

### Startup and Deployment

One JVM per pid.  `main` is where the main thread is: `init` (`ServerStarter.run`,
`JettyServer.init`), `spring` and `listener` (the listeners of `web.xml` in their
order), `switch` (`fetch.switch`), `connect`, and then `up` or `failed`.  `ctx`,
`props` and `app` are what these steps leave for others to read; `fetch` is the
fetch thread up to its first pass, after which `NHDZFetcher` takes over; `hook` is
the thread that runs on SIGTERM.

What Jetty 8 and Spring do between the lines of fiora was taken from the classes
of the versions in `pom.xml`: a server starts its handlers before its
connectors; `WebAppContext` keeps an exception of the listeners to itself, so
that the server comes up without the application; a `start` that fails on the
port leaves everything that was started, on threads that are no daemons; the
hook of `setStopAtShutdown` stops a server only if it has started, closes the
connectors first and then the listeners in reverse.  `contextDestroyed` of
fiora is empty, so the fetch thread runs until the process ends.

`Deployment` has one `proc`, the process table, for both parts.  `Launch` is the
launch of the script and the first step of a JVM in one; `Leave` is the end of
a process that got SIGTERM, once its hook is done.  A step of a JVM alone leaves
the script's variables as they are, which is why `Deployment` implements
`ServerDaemon`.  `Stranger` is an unrelated process that takes or frees the port.

`NHDZFetcher` and `Deployment` are not composed further: a fetch thread shares
nothing with the script but the life of its JVM, which `NHDZFetcher` has as
`Start` and `Kill`, for any number of JVMs.

### HttpCall

One element of `Calls` is one call of one of the four methods, by any thread.
`pc` follows the method: `build`, the phases of `HttpClient.execute` (`execute`,
`send`, `wait`), `entity` and `copy` in the `try`, `response` and `client` in the
`finally`.  `result` is what the `try` has in hand; an exception of a close
replaces it, and if closing the response throws, the client is not closed.
`sent` and `done` are the transmissions that went out in full and those the peer
processed, late ones included.  `Open` counts connections and streams against
`MaxOpen`.  `framed` says whether an answer gives the length of its body or sends it
in chunks; one that does neither ends where the connection is closed, so that a
body cut short ends like a whole one (`ReadsToEnd`), in `EntityUtils.toString` as in the
copy loop.

httpclient 4.5.2, in the repository as the binary `lib/httpclient-4.5.2.jar` and
modelled from what fiora relies on, repeats a request up to three
times after an `IOException`, a GET always and a POST only if it did not go out
in full; its closes log an `IOException` and do not throw.  The model allows a
close to throw, since the `finally` blocks are written for that.

What `Exchange` promises is what the callers are modelled on: an answer means
that the peer processed the request, an error means nothing about it, and it
may be processed later.  These are the answers of JAX in `NHDZFetcher` and of
both sites and JAX in `UserFetch`.

### PageCut

Pure operators, no process: a state is one page, and the run goes through every
page of up to `MaxPieces` pieces, for each of the four kinds of page.  A piece is a tag the code searches for, a
blank, or other text (`x`).  `Text` turns pieces into symbols: one each, but two
or three for a marker whose length the code adds to a position, so that a cut in
the middle of it, or at position -1 plus its length, is a cut at a different
place.  Tags that hold a quote have it as a symbol, since the code searches for
quotes.
`IndexOf`, `Substring`, `Split` and `Trim` do what `indexOf`, `substring`, the
`Splitter` and `trim` do; the `Splitter` finds its parts one by one from the front,
so `Split` is a recursive function and `Part` the next part of what is left.
`PiecesAssumption` says of a page that its pieces have names and that it starts
with other text: no page starts with a tag the code searches for.  A cut is the set of its result, `{}` if it throws, so
that a chain of cuts is a union.  The properties say where the result lies on
the page, in terms of pieces and not of positions.

This is what `NHDZFetcher` and `UserFetch` rest on when they take a page as gone,
failing or holding what it should: `ContentIsTitle` shows that for every page of
a dz, `UserIsOwn` for every page of a user with a portrait and a link to that
user.  Without one of these two markers the code does not fail but cuts
something else from the page; nothing is stated there, and `UserFetch` goes on with
such a page as with a user's.  A url that is not closed
goes on to the next quote, in whichever of the pieces that hold one (`Quoted`), and
takes what of that piece is in front of the quote (`UpToQuote`).  The fourth kind is
the page of articles that `QSBKFetcher.loadInfo` cuts: `ArticlesAreOwn` walks the page
from article to article (`ArticleAt`) and shows that each dz gets id and content of
one article (`IdEnd`, `Content`, `ContentEnd`), and that an article that throws leaves
those before it in the list.

## 3. Runs

| Run | Question | Bounds |
|---|---|---|
| `import_faults` | One fetch thread, any failure, kill, late request: are the tables right, is nothing skipped, does the code implement `ImportedStore`? | 5 dz (one gone, one broken, one listed only beside the broken one), 3 comments, one of them both recent and top, 1 late request |
| `import_two_jvms` | The same with two JVMs side by side, JAX refusing known dz | 2 JVMs, 2 dz, 2 comments, 1 late request |
| `import_live` | Does the loop go on for ever, and does everything get in once nothing fails? | 1 JVM, 2 dz, 2 comments |
| `users_shared_tmp` | Two requests in one tmp directory, inside and outside it, with parameters and with form fields over them, where any body may be an error page or a part | 2 requests, ints -4..3 (`Half` = 4), ranges overlapping and empty, a form with two `args`, a form with a bad `uid`, names 0..2 |
| `users_int_edge` | Whom does a request ask JAX for, in which order, and how does it count them? Do requests end? Inside and outside the tmp directory, on pages with and without their markers | 1 request, ints -4..3, one name per moment (`Spread` = 1), ranges up to the largest int and across zero with more users (5 in all) than `MaxInt` = 3, a form with two `args`, a form with a bad `uid` |
| `page_cut` | Are the ids those between the brackets of the list? Is a dz page gone, failing, or its first title? Are portrait and name those of the user, id and content those of one article? | home: 10 pieces, 2 lists, 3 separators, 3 symbols logged instead of 200 characters; dz: 7 pieces, 2 opening and 2 closing title tags; user: 9 pieces, 2 `meta` tags, 2 portraits, 2 words `default`, 2 links; articles: 11 pieces, 2 articles, 2 content tags |
| `deployment` | Start, stop, crash, reuse, one call at a time, with the JVMs from `main` to the end of their hook: one JVM? Do its threads find what they need? Does it come up, and does it end? | 2 terminals, 3 pids |
| `http_call` | What goes out, what does an answer mean, and does every call come back, if anything about a call fails and what it left open may stay so? | 2 calls, 2 transmissions each, 2 descriptors |
| `daemon_live` | Does `stop` end? Overlapping calls | 2 terminals, 2 pids |
| `daemon_refusal`, `daemon_stale_pid`, `daemon_overlap` | violations: see section 5 | 2 terminals, 2 pids |

Why the bounds are enough.  Import: to file a comment under the wrong dz takes
two records in one pass and one failing call; to store it twice takes one late
request and one repeat; a second late request only adds one more choice of what
arrives.  Three listings let a pass differ from the one before.  Users: a mix-up
takes two requests and one shared name, and three names allow both sharing and
not sharing.  Ints from -4 to 3 keep negative ids, an upper
edge, and ranges of three; with users at -2, -1, 0 and 2 one range holds more
than the largest int.
Script: what the invariants forbid are two servers; a third pid lets an
unrelated process, on the port or not, live beside an old and a new server.
Calls: two descriptors are fewer than the two calls can hold, so that a call
finds none left; one repeat is enough for a request to go out twice.  Pages: every order of
the tags a cut depends on, missing and doubled ones included, with text between.  The named bounds are
`MaxLate`, `MaxTime`, `Spread`, `Half`, `MaxTries` and `MaxOpen` of `HttpCall`
(4 and the limit of the process in the code), and `Times`, `Start`, `MaxPieces` and `LogLen`
of `PageCut`; no other counter grows without end.
The clock that stops at `MaxTime` only removes behaviours in which no name is
shared.

`CHECK_DEADLOCK FALSE` is set for `NHDZFetcher`, where a thread that is stuck
while nothing fails any more has no step, and for `UserFetch`, where the requests
are all answered in the end, for `HttpCall`, where all calls are over in the end,
and for `PageCut`, where a page stops growing at its bound.  `ServerDaemon` and
`Deployment` are checked for deadlock.

Symmetry is used only in runs without liveness properties.

### Properties

- `RowsMatchSite`, `OrphanOnlyAfterRefusal`, `NothingSkipped`,
  `SavesWholeListing`: section 1, import loop.  They relate JAX's tables and the
  requests under way to the site and to what the thread is at.
  `SavesWholeListing` is stated by positions (`Covers`): each record has a place in
  the listing, later ones later places, and each place whose dz is not gone has
  its record.
- `StoredOnlyFromSoundListing`: the price of `SavesWholeListing`.  One page the
  parser fails on keeps every dz listed beside it out, in every pass.
- `StoreSpec`: refinement of `ImportedStore`; rows are stored once, never moved.
- `LoopRecurs`: whatever exception a pass throws, and wherever, the thread comes back
  to the listing; it ends only with its JVM or by an `Error`, and waits for good only
  in a call.  With a catch of `FioraException` alone, the page that does not parse
  ends it.  `EventuallyImported`: once nothing fails, everything shown gets in.
- `PortraitFromOwnAnswer`: JAX gets for a user the body of the one answer that was
  got for him, unless two requests drew one file name; no failure, kill or overlap
  of requests mixes two users up or posts an empty file.  It does not say that
  the body is a portrait (section 6).  `LeaksOnlyByFailure`: a file nobody
  works on was left by a request that did not answer SUCCESS.
- `ServesRangeInOrder`, `EventuallyAnswered`: what SUCCESS and the count mean for what
  the client asked, and that a request ends.  Both leave out the one `end` for which
  the loop does not end by itself (section 6).
- `AtMostOneServer`, `EveryServerHasPidFile`, `StopEnds`: the script.
- `ConfigBeforeUse`, `ImporterLives`: the unsynchronised configuration is filled
  before anybody reads it, no request meets a missing or closed Spring context,
  and the fetch thread starts in every server nobody stops.
- `PortLostToStrangerOnly`: the script never starts a JVM against another of its
  own.  It relates the hook of the old JVM to the start of the new one.
- `EventuallyUp`, `ScriptSpec`: a JVM comes up whatever its web application does;
  the script's specification, its liveness included, holds with the JVMs in it.
- `PostAtMostOnce`, `AnswerIsWhole`: what a caller may conclude from an answer, and
  that a retry of a POST is the caller's own, as `RetryDZ` of `NHDZFetcher` is.
- `EventuallyReturns`: every call ends unless its peer is silent, with every descriptor
  in use too: it fails then.  `CallerSpec`: the refinement.
- `IdsAreListed`, `ContentIsTitle`, `UserIsOwn`, `ArticlesAreOwn`: what the cuts of a
  page yield.
- `TypeOK` of each module, and `JvmInv`, which has the types of `Startup` and what
  each point of a start and of a hook can rely on.

The other inductive invariants (`IInv`, `ListingIInv`, `CoverIInv`, `PortraitIInv`,
`TypeIInv`, `LeakIInv`, `RangeIInv`, `SerialInv`, `TriesInv`, `PageIInv`) are proved, and
no run lists them.

### Fairness

`NHDZFetcher` and `UserFetch` assume weak fairness of the steps of each live
thread (`Run`): the JVM schedules its threads, and nothing in `Run` waits for
another thread.  A call that never returns is the separate, unfair step
`CallNeverReturns`, since no timeout is set anywhere; restarts, the healing of
the network and the delivery of late requests are owed by nobody.
`ServerDaemon` assumes that a script that can go on does, and that a server that
got SIGTERM ends (`Leave`); `Deployment` shows this of the JVM's own steps
(`ScriptSpec`), of which it assumes that each thread goes on while its process
lives, and the halt when the hook is done.  `HttpCall` assumes that the thread of
a call goes on.  Its peer owes nothing: a silent one is `NeverReturns`.  Nor does the
collector: what a call left open may stay open for good (`Collect` is not fair).

## 4. Proofs

`NHDZFetcherProofs`, for every site, number of JVMs, bound and both values of
`ExistingIsError`, from `SiteAssumption` (a comment page of d shows comments of
d), `NoDzAssumption` and `JaxAssumption`:

- `TypeCorrect`, `RowsAlwaysMatchSite`, `OrphansAreRefused`, `SkipsNothing`:
  the safety properties of the same names as in the runs.
- `Invariance`: the inductive invariant `IInv`.  None of the above is inductive
  alone.  A row that is posted gets its parent from `dzId[f]`, so `ThreadInv` says
  what that can be: the record's own dz, already stored, or `NoDz` after a
  refusal; that in turn needs the retry to start from `NoDz`, and the records of a
  pass to hold comments of their own dz.  `NothingSkipped` needs to know of the
  record under way what it says of the finished ones, which is `Progress`.  The
  proof has one lemma per group of actions and conjunct, and frame lemmas for
  the threads that do not move (`OthersKeepLocals`, `ThreadFrame`) and for the
  answers that stay answers (`StepOfJax`, `AnswersLast`).
- `ImplementsStore`: `Spec => StoreSpec`.  Every step adds at most one row
  (`OneRowAtATime`), which `IInv` makes a legal one.

`NHDZListingProofs`, from the same assumptions:

- `StoresOffSoundListings`.  `ListingIInv` adds to the property what a pass knows of
  its listing: each record comes off it, and every page before the one at hand
  parsed or was gone.  So a thread that saves has a listing without a broken
  page, and a dz gets into the table only from there (`DzComesOffAList`).
- `SavesWhole`.  `CoverIInv` says that the records cover the listing up to the page
  at hand: a page that is gone covers one place more with no record
  (`CoversGone`), a page that parsed covers it with the new one (`CoversMore`), and
  no other step of any thread changes what is covered.

`UserFetchProofs`, for any number of requests and any `Half`, `Spread`, clock, site and
clients, from `IntAssumption`, `AsksAssumption`, `ClockAssumption` and `CwdAssumption`:

- `PortraitsAreAnswers`.  `PortraitIInv` says of a request whose names no other request
  drew that the file it works on holds exactly what that request wrote, whatever body
  that is
  (`OwnFile`); a step of another request is on another name (`OthersStep`), and a
  name once drawn stays drawn (`DrawnGrows`), so that a request that is free of
  collisions now always was.
- `TypeCorrect`.  `TypeOK` is not inductive: a write needs the file to be there,
  which `HasFile` adds.  That a request gets a range for its args needs `MergedArgs`:
  what laying the fields over the parameters one by one leaves there is the
  last field of that name, the one a client would name (`Wanted`).
- `LeaksByFailure`.  `LeakIInv` adds that an answer is given only at the end: the
  request a file is left by is still at work or has failed.
- `ServesInOrder`.  `RangeIInv` joins `TypeIInv` with three facts of each request: before
  its dispatch it has done nothing (`Fresh`), its range is the one asked for
  (`Takes`), and at each point of the loop it has served the users it is past, and
  the present one once it is posted (`Serves`).  An id that is at most an `end` below
  the largest int does not wrap (`Advance`).  The count needs two facts about
  numbers: one id further is one user more or none (`OneFurther`), and a range has
  at most 2 * `Half` users, fewer than wrap twice (`FewUsers`), so that `count++` keeps
  to `Counted` (`CountOneMore`).  The theorem did not hold as first stated, with the
  plain number of users: the counterexample is the range with more users than
  the largest int, now in `users_int_edge`.

`PageCutProofs`, for pages of any length and any pieces, from `PiecesAssumption`
and `LogAssumption`: `ContentOfTitle` and `IdsOfList`.  The invariant
(`PageIInv`) is only that a page is a sequence of pieces that starts with text; the
rest is about sequences, in this order:

- The symbols of two pages laid end to end are those of each (`FlattenConcat`,
  `TextConcat`), and the first symbol of a tag is in no other place
  (`FirstSymbol`).  Hence a tag that is not among the pieces is not among the
  symbols, nor does one arise across two pieces (`NoTag`).
- So the position `indexOf` finds is that of the first piece with that name, what
  `substring` leaves in front and behind are whole pieces (`TagCut`), and of two
  tags the one further in front is found first (`FirstOfEither`).
- `TitleCut` follows from two such cuts, the second of which may miss.
- The parts of a `Split` are free of the separator, and joined by it they are what
  was split (`PartIs`, `JointMore`, `SplitIs`).
- `IdsCut`: between list and bracket there is no bracket, the log statement throws
  exactly on less than `LogLen`, and what is split is what lies between.

`PageCutUserProofs`, from `PiecesAssumption`: `PortraitAndName` (`UserIsOwn`) and
`ArticlesOfPage` (`ArticlesAreOwn`), on top of those lemmas.  These cuts end at a quote,
which is inside several tags, so that the first symbol of what is searched does
not tell the piece, and the next search starts in the middle of one:

- A quote is in the pieces of `Quoted` and no other (`QuotedHold`, `TextAvoids`), so the
  first one is in the first such piece, and what is in front of it is whole
  pieces and the part of that one that is `UpToQuote` (`QuoteCut`).
- What is left of a piece behind its quote starts no tag (`QuoteOpensNone`), so the
  search from there finds what it would find behind the whole piece (`TagAfter`,
  `TagBehind`).  A chain of these is one article (`ArticleCut`), or throws where `Sound`
  fails.
- The parts of a `Split` at a tag come off one by one (`SplitCons`, `SplitAtTag`).  The
  walk along `ArticleAt` takes them in the same order (`Walk`, `ArticlesParted`), and the
  list that `loadInfo` leaves when an article throws is that of the articles before
  it (`ArticlesLoaded`).
- `trim` takes the blanks at both ends and nothing else (`TrimFinds`, `TrimMisses`), so
  that `indexOf("default") > 0` asks for something other than a blank in front of
  the first `default` (`DefaultIn`).  `UserCut` joins this with the cuts at portrait,
  quote, link and `</a>`.

Both properties had to be said better before they could be proved.  `UserIsOwn` took
the quote that ends an open url to be in the link at the latest, and any `default`
behind other text to make a default portrait; it may be in a second portrait, and
only the first `default` counts.  A page with one of each could not show that, so
that the run now has two.  `ArticlesAreOwn` found its articles by sorting; it now
walks from one to the next, as the `Splitter` does.

`ServerDaemonProofs`, for any number of terminals and pids, from `PidAssumption`:
`TypeCorrect`, and, without overlapping calls, `SerialInvariance`, `OneServer`,
`ServersHavePidFile`.  `SerialInv` adds what each command may rely on from the
commands before it; `AtMostOneServer` follows since every server's pid is in the
one pid file or in the one call that is running (`SameServer`).

`DeploymentProofs`, for any number of terminals and pids, from `PidAssumption`:

- `ImplementsScript`: every step of the composition is one of `ServerDaemon` or
  leaves its variables alone.  The theorems of `ServerDaemonProofs` then hold of
  `Script`, and are not proved again: `OneServer` and `ServersHavePidFile` follow.
- `JvmInvariance`: `JvmInv` says what a JVM has at each point of its life
  (`InOrder`).  It needs `TypeOK` of the script, for the pid of a launch to be a
  free one.  `ConfigIsThere` and `ImportersLive` follow.
- `PortIsOurs`, for calls that do not overlap: a port that is taken belongs to a
  stranger or to a server that is up (`JvmInv`), a JVM that finds it taken is a
  server itself, and there is only one (`SameServer`).

`HttpCallProofs`, for any finite set of calls and any `MaxTries` and `MaxOpen`, from
`CallsAssumption`, `TriesAssumption` and `OpenAssumption`: `TriesAreKept`, `PostsOnce`,
`AnswersAreWhole`, `TypeCorrect`, `ImplementsExchange`.  The invariant joins
`TriesInv`, the types and `AnswerIsWhole`: an answer comes from the last
transmission because a response is only read after the peer processed it, and
a POST that waits is not repeated.  `TypeCorrect` needs besides that one step
takes one descriptor at most, a fact about cardinalities.  The refinement
needs `TriesInv`: the peer processes a POST only once since only one
transmission of it ever went out.

Recursive functions.  The theorems on induction take an operator as a parameter,
which the installed provers do not instantiate.  Where a proof needs what a recursive
function computes, it goes by way of a least counterexample instead, which `WFMin`
gives for a set of numbers (`LeastNatural`): that the function exists (`LaidExists` for
`Merged`, `GlueExists` for `FlattenSeq`, `PartsExist` for `Split`, `StepsExist` for
`ArticleAt`), and then what its values are.  `SeqInduction` is the same for sequences, with the set of those a
statement holds of.

Only model-checked: liveness under fairness (`LoopRecurs`, `EventuallyImported`,
`EventuallyAnswered`, `EventuallyUp`, `ScriptSpec`, `EventuallyReturns`,
`StopEnds`), which the prover cannot reach, nor `ENABLED`; of
`ScriptSpec` the steps are proved (`ImplementsScript`), its fairness is not.  Every
invariant and every action property of a passing run is a theorem.

## 5. What the violation runs show

- `daemon_refusal`: after a crash the pid file stays, and `start` refuses with
  "running as process $pid" though no such process is a server.
- `daemon_stale_pid`: after a crash the pid may belong to another process, which
  `stop` then kills and waits for.
- `daemon_overlap`: two overlapping `start`s both pass the test for the pid file
  and both launch a JVM; the pid of one is lost.  `ServerDaemon` knows nothing of what runs
  in a JVM; by `Startup` the fetch thread starts before the connector is opened, so
  that the second JVM may import even if it does not get the port, and
  `import_two_jvms` shows that JAX's tables survive that.

## 6. Limits of the code that no property claims away

These are facts of the code that the models have as behaviours.  Nothing in the
repository says otherwise, so that there is no claim to refute, and a property that
excused them would say nothing.

- A portrait is whatever body came (`WriteFile`): no status is looked at
  (`InternetUtil.java:155`), and a user page without one of its markers yields another
  url or name (`FetchService.java:41`, `:50`).
- A body without a length that is cut short is taken for whole (`ReadsToEnd`).
- `end` = the largest int: `id <= end` cannot become false, `id++` wraps, and the request
  goes on over negative ids until a call fails (`FetchService.java:30`).
- Outside the tmp directory `postFile` does not find the file (`InternetUtil.java:108`),
  and the request fails at its first user.
- The stream of `InternetUtil.java:158` is never closed; only the collector may give its
  descriptor back, and nothing makes it do so in time.
- An `Error` in a pass ends the fetch thread, and a silent peer stops it.

## 7. Not modelled

- The JSON of the comments: only whether it parses and what it lists.
- `deviceId` and an uploaded file in a request: handed on, read by no method.
- QSBK import: `fetch` and `save`, which nobody calls since `FetchTask` switched
  them off (`FetchTask.java:24`).  The lists of the bean are never cleared, so that
  every pass would post all earlier records again.  How it cuts its pages is in
  `PageCut`.
- MD5, value classes: no behaviour of their own.
- The JavaScript under `src/main/webapp/static` is a copy of AdminLTE, jQuery, its
  plugins, editors and chart libraries.  It is most of the repository's lines,
  none of it was written for fiora, and no page that uses it talks to a handler
  of fiora, whose one mapping is `APIController.dispatch`.  It is left out, and
  with it nearly all lines of JavaScript.
- Build, logging and deployment configuration: the properties the code reads
  appear as constants.

## 8. Plan

Done: import, user import with dispatch, HTTP calls, script, start-up and their
composition, the cutting of pages.

Every safety property the passing runs check is proved.  What is left is
`ArticlesAreOwn` and `UserIsOwn` for pages that lack a marker the code does not miss,
which would state what is cut there instead.
