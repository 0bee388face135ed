------------------------------ MODULE Startup ------------------------------
(***************************************************************************)
(* The life of one server JVM, and of all JVMs of a machine side by side:  *)
(* ServerStarter starts Jetty, which starts the web application (Spring,   *)
(* then FioraListener, which loads the properties and starts the fetch     *)
(* thread) and only then opens the port.  An exception of the web          *)
(* application leaves the server up without it; one of the port leaves the *)
(* JVM alive, fetch thread and all, because its threads are no daemons.    *)
(* SIGTERM runs the hook that setStopAtShutdown asks for: it stops a       *)
(* server that is started, port first, and nobody stops the fetch thread.  *)
(*                                                                         *)
(* The process table belongs to the machine: Deployment joins the two.     *)
(***************************************************************************)
CONSTANTS
  Pids,   \* process ids of the machine
  NoPid   \* nobody has the port

VARIABLES
  proc,   \* the process table
  main,   \* where the main thread is
  ctx,    \* the Spring context: "none", "ready" or "closed"
  props,  \* PropertiesConfiguration.map: "empty" or "filled"
  app,    \* the web application: "none" or "available"
  fetch,  \* the fetch thread
  hook,   \* the shutdown hook
  port    \* the process that listens on the port

jvmVars == <<main, ctx, props, app, fetch, hook, port>>

MainPCs == {"none", "init", "spring", "listener", "switch", "connect", "up", "failed"}

Init ==
  /\ main = [p \in Pids |-> "none"]
  /\ ctx = [p \in Pids |-> "none"]
  /\ props = [p \in Pids |-> "empty"]
  /\ app = [p \in Pids |-> "none"]
  /\ fetch = [p \in Pids |-> "none"]
  /\ hook = [p \in Pids |-> "none"]
  /\ port = NoPid

At(p, label) == main[p] = label
Goto(p, label) == main' = [main EXCEPT ![p] = label]

\* The threads of a JVM that got SIGTERM go on until it halts.
Alive(p) == proc[p] \in {"server", "leaving"}

------------------------------------------------------------------------------
(* The main thread.                                                        *)

Begin(p) ==
  /\ At(p, "none")
  /\ Goto(p, "init")
  /\ UNCHANGED <<ctx, props, app, fetch, hook, port>>

\* Configuration, connector, handlers and the hook.
InitServer(p) ==
  /\ At(p, "init")
  /\ Goto(p, "spring")
  /\ UNCHANGED <<ctx, props, app, fetch, hook, port>>

\* Mutant: web.xml names FioraListener first.
ListenerFirst(p) ==
  /\ At(p, "spring")
  /\ Goto(p, "listener")
  /\ UNCHANGED <<ctx, props, app, fetch, hook, port>>

\* ContextLoaderListener, which web.xml names before FioraListener.
SpringReady(p) ==
  /\ At(p, "spring")
  /\ ctx' = [ctx EXCEPT ![p] = "ready"]
  /\ Goto(p, "listener")
  /\ UNCHANGED <<props, app, fetch, hook, port>>

\* That, or Log4jConfigListener before it: the web application gives up; the server
\* does not.
SpringFails(p) ==
  /\ At(p, "spring")
  /\ Goto(p, "connect")
  /\ UNCHANGED <<ctx, props, app, fetch, hook, port>>

LoadProps(p) ==
  /\ At(p, "listener")
  /\ props' = [props EXCEPT ![p] = "filled"]
  /\ Goto(p, "switch")
  /\ UNCHANGED <<ctx, app, fetch, hook, port>>

\* No file, or no fetch.switch in it.
ListenerFails(p) ==
  /\ main[p] \in {"listener", "switch"}
  /\ Goto(p, "connect")
  /\ UNCHANGED <<ctx, props, app, fetch, hook, port>>

\* Mutant: the listener calls run of the thread, not start, and never returns.
StartFetchInline(p) ==
  /\ At(p, "switch") /\ props[p] = "filled"
  /\ fetch' = [fetch EXCEPT ![p] = "running"]
  /\ Goto(p, "fetching")
  /\ UNCHANGED <<ctx, props, app, hook, port>>

\* fetch.switch is read out of the properties, here and in SwitchOff.
StartFetch(p) ==
  /\ At(p, "switch") /\ props[p] = "filled"
  /\ fetch' = [fetch EXCEPT ![p] = "starting"]
  /\ app' = [app EXCEPT ![p] = "available"]
  /\ Goto(p, "connect")
  /\ UNCHANGED <<ctx, props, hook, port>>

SwitchOff(p) ==
  /\ At(p, "switch") /\ props[p] = "filled"
  /\ app' = [app EXCEPT ![p] = "available"]
  /\ Goto(p, "connect")
  /\ UNCHANGED <<ctx, props, fetch, hook, port>>

\* The connector opens, and main waits in join.
OpenPort(p) ==
  /\ At(p, "connect") /\ port = NoPid
  /\ port' = p
  /\ Goto(p, "up")
  /\ UNCHANGED <<ctx, props, app, fetch, hook>>

\* start throws out of main; nothing that was started is stopped.
PortTaken(p) ==
  /\ At(p, "connect") /\ port # NoPid
  /\ Goto(p, "failed")
  /\ UNCHANGED <<ctx, props, app, fetch, hook, port>>

------------------------------------------------------------------------------
(* The fetch thread and the hook.                                          *)

\* FetchTask asks the context for its fetcher, once; without a context the
\* exception ends the thread before its first pass.
GetBean(p) ==
  /\ fetch[p] = "starting"
  /\ fetch' = [fetch EXCEPT ![p] = IF ctx[p] = "ready" THEN "running" ELSE "dead"]
  /\ UNCHANGED <<main, ctx, props, app, hook, port>>

\* A server still starting, or that failed to, is not stopped.
HookSkips(p) ==
  /\ proc[p] = "leaving" /\ hook[p] = "none" /\ ~At(p, "up")
  /\ hook' = [hook EXCEPT ![p] = "done"]
  /\ UNCHANGED <<main, ctx, props, app, fetch, port>>

\* stop closes the connectors first ...
ClosePort(p) ==
  /\ proc[p] = "leaving" /\ hook[p] = "none" /\ At(p, "up")
  /\ port' = NoPid
  /\ hook' = [hook EXCEPT ![p] = "closing"]
  /\ UNCHANGED <<main, ctx, props, app, fetch>>

\* Mutant: contextDestroyed waits for the fetch thread.
JoinAndCloseContext(p) ==
  /\ hook[p] = "closing" /\ fetch[p] \notin {"starting", "running"}
  /\ ctx' = [ctx EXCEPT ![p] = "closed"]
  /\ app' = [app EXCEPT ![p] = "none"]
  /\ hook' = [hook EXCEPT ![p] = "done"]
  /\ UNCHANGED <<main, props, fetch, port>>

\* Mutant: contextDestroyed takes away what contextInitialized has set up.
CloseContextClears(p) ==
  /\ hook[p] = "closing"
  /\ ctx' = [ctx EXCEPT ![p] = "closed"]
  /\ props' = [props EXCEPT ![p] = "empty"]
  /\ app' = [app EXCEPT ![p] = "none"]
  /\ hook' = [hook EXCEPT ![p] = "done"]
  /\ UNCHANGED <<main, fetch, port>>

\* ... and then the web application: contextDestroyed of FioraListener, which
\* does nothing, before Spring's.
CloseContext(p) ==
  /\ hook[p] = "closing"
  /\ ctx' = [ctx EXCEPT ![p] = "closed"]
  /\ app' = [app EXCEPT ![p] = "none"]
  /\ hook' = [hook EXCEPT ![p] = "done"]
  /\ UNCHANGED <<main, props, fetch, port>>

\* A process ends or begins, and the system takes back what it held.
Halt(p) ==
  /\ main' = [main EXCEPT ![p] = "none"]
  /\ ctx' = [ctx EXCEPT ![p] = "none"]
  /\ props' = [props EXCEPT ![p] = "empty"]
  /\ app' = [app EXCEPT ![p] = "none"]
  /\ fetch' = [fetch EXCEPT ![p] = "none"]
  /\ hook' = [hook EXCEPT ![p] = "none"]
  /\ port' = IF port = p THEN NoPid ELSE port

\* An unrelated process takes the port if it is free, or gives it back.
Stranger(p) ==
  /\ proc[p] = "other"
  /\ \/ port = NoPid /\ port' = p
     \/ port = p /\ port' = NoPid
  /\ UNCHANGED <<main, ctx, props, app, fetch, hook>>

MainStep(p) ==
  /\ Alive(p)
  /\ \/ InitServer(p) \/ SpringReady(p) \/ SpringFails(p)
     \/ LoadProps(p) \/ ListenerFails(p) \/ StartFetch(p) \/ SwitchOff(p)
     \/ OpenPort(p) \/ PortTaken(p)

FetchStep(p) == Alive(p) /\ GetBean(p)

HookStep(p) == Alive(p) /\ (HookSkips(p) \/ ClosePort(p) \/ CloseContext(p))

------------------------------------------------------------------------------
(* Properties.                                                             *)

\* Type correctness of the JVMs.
JvmTypeOK ==
  /\ main \in [Pids -> MainPCs]
  /\ ctx \in [Pids -> {"none", "ready", "closed"}]
  /\ props \in [Pids -> {"empty", "filled"}]
  /\ app \in [Pids -> {"none", "available"}]
  /\ fetch \in [Pids -> {"none", "starting", "running", "dead"}]
  /\ hook \in [Pids -> {"none", "closing", "done"}]
  /\ port \in Pids \cup {NoPid}

\* How far a JVM is tells what it has: nothing is left of one that is gone; the
\* context comes before the properties, those before the fetch thread, and
\* what the hook takes away it takes from a JVM that was up.
InOrder(p) ==
  /\ Alive(p) <=> main[p] # "none"
  /\ main[p] \in {"none", "init", "spring"} => ctx[p] = "none"
  /\ main[p] \in {"none", "init", "spring", "listener"} => props[p] = "empty"
  /\ main[p] \in {"listener", "switch"} => ctx[p] = "ready"
  /\ main[p] = "switch" => props[p] = "filled"
  /\ app[p] = "available" \/ fetch[p] # "none" =>
       /\ props[p] = "filled" /\ ctx[p] # "none"
       /\ main[p] \in {"connect", "up", "failed"}
  /\ app[p] = "available" => ctx[p] = "ready"
  /\ fetch[p] = "dead" => ctx[p] = "closed"
  /\ ctx[p] = "closed" => main[p] = "up" /\ hook[p] = "done"
  /\ hook[p] # "none" => proc[p] = "leaving"
  /\ hook[p] = "closing" => main[p] = "up"
  /\ port = p => proc[p] = "other" \/ main[p] = "up"

JvmInv == JvmTypeOK /\ \A p \in Pids : InOrder(p)
=============================================================================
