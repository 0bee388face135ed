----------------------------- MODULE Deployment -----------------------------
(***************************************************************************)
(* The service script (ServerDaemon) and the JVMs it launches and kills    *)
(* (Startup) on one machine.  A launch is the first step of a JVM; SIGTERM *)
(* finds the JVM wherever its start has got to, and the process is gone    *)
(* from the table only when its hook is done.                              *)
(***************************************************************************)
EXTENDS Naturals, FiniteSets

CONSTANTS Scripts, Pids, NoPid, Overlap

ASSUME PidAssumption ==
  NoPid \notin Pids /\ "empty" \notin Pids \cup {NoPid} /\ Overlap \in BOOLEAN

VARIABLES
  pc, pid, pidFile,                          \* of the script
  proc,                                      \* shared
  main, ctx, props, app, fetch, hook, port   \* of the JVMs

scriptVars == <<pc, pid, pidFile>>
jvmVars == <<main, ctx, props, app, fetch, hook, port>>
vars == <<scriptVars, proc, jvmVars>>

Script == INSTANCE ServerDaemon
JVM == INSTANCE Startup

Init == Script!Init /\ JVM!Init

\* The script, except where it launches a JVM.
ScriptStep(s) ==
  /\ \/ Script!StartRefused(s) \/ Script!StartAllowed(s)
     \/ Script!OpenPidFile(s) \/ Script!WritePid(s)
     \/ Script!StopChecks(s) \/ Script!CatPid(s) \/ Script!KillPid(s)
     \/ Script!PollGone(s) \/ Script!RemovePidFile(s)
  /\ UNCHANGED jvmVars

Launch(s) == Script!Launch(s) /\ JVM!Begin(pid'[s])

Call(s) == Script!Call(s) /\ UNCHANGED jvmVars

\* The threads of a JVM, as long as its process exists.
MainStep(p) == JVM!MainStep(p) /\ UNCHANGED <<scriptVars, proc>>
FetchStep(p) == JVM!FetchStep(p) /\ UNCHANGED <<scriptVars, proc>>
HookStep(p) == JVM!HookStep(p) /\ UNCHANGED <<scriptVars, proc>>

\* The process table.
Leave(p) == Script!Leave(p) /\ hook[p] = "done" /\ JVM!Halt(p)
Crash(p) == Script!Crash(p) /\ JVM!Halt(p)
Reuse(p) == Script!Reuse(p) /\ JVM!Halt(p)

\* An unrelated process takes the port, and may give it back.
Stranger(p) == JVM!Stranger(p) /\ UNCHANGED <<scriptVars, proc>>

Run(s) == ScriptStep(s) \/ Launch(s)

Next ==
  \/ \E s \in Scripts : Call(s) \/ ScriptStep(s) \/ Launch(s)
  \/ \E p \in Pids :
       \/ MainStep(p) \/ FetchStep(p) \/ HookStep(p)
       \/ Leave(p) \/ Crash(p) \/ Reuse(p) \/ Stranger(p)

Spec == Init /\ [][Next]_vars

\* Every thread that can go on does: the scripts, the threads of a JVM, and the
\* halt at the end of the hook.  Nobody has to call, crash or come by.
FairSpec ==
  /\ Spec
  /\ \A s \in Scripts : WF_vars(Run(s))
  /\ \A p \in Pids :
       /\ WF_vars(MainStep(p)) /\ WF_vars(FetchStep(p))
       /\ WF_vars(HookStep(p)) /\ WF_vars(Leave(p))

------------------------------------------------------------------------------
(* Properties.                                                             *)

\* What the life cycle of the JVMs holds to, and with it the types.
JvmInv == JVM!JvmInv

\* Neither the fetch thread nor a request ever reads the unsynchronised
\* PropertiesConfiguration before the listener has filled it, and no request
\* reaches a web application whose Spring context is not there, or is closed.
ConfigBeforeUse ==
  \A p \in Pids :
    /\ fetch[p] # "none" => props[p] = "filled"
    /\ port = p /\ app[p] = "available" => props[p] = "filled" /\ ctx[p] = "ready"

\* The fetch thread of a JVM that nobody stops does not die of the order things
\* start in: a server that imports nothing looks like one that does.
ImporterLives ==
  \A p \in Pids : fetch[p] = "dead" => proc[p] = "leaving"

\* Called one at a time, the script never lets a JVM come up against another of
\* its own: only a stranger on the port leaves one that imports without anybody
\* able to ask it anything.
PortLostToStrangerOnly ==
  [][\A p \in Pids : JVM!PortTaken(p) => proc[port] = "other"]_vars

\* A JVM that is launched listens on the port in the end, whatever becomes of
\* the web application, unless it is stopped or crashes, or the port is taken.
EventuallyUp ==
  \A p \in Pids :
    (main[p] = "init") ~> (main[p] \in {"up", "failed"} \/ proc[p] # "server")

\* With the JVM's own steps in it, the script still does what ServerDaemon says:
\* a JVM that got SIGTERM ends wherever its start was, although nobody stops its
\* fetch thread.
ScriptSpec == Script!FairSpec

\* What the script promises if it is called one at a time, wherever the JVMs are:
\* there is one, and its pid is in the file or in the call that is under way.
AtMostOneServer == Cardinality(Script!Servers) <= 1
EveryServerHasPidFile == Script!EveryServerHasPidFile
=============================================================================
