---------------------------- MODULE ServerDaemon ----------------------------
(***************************************************************************)
(* bin/server-daemon.sh: an operator starts and stops the server JVM, and  *)
(* a pid file is all that one call of the script leaves to the next.       *)
(* Every JVM runs a fetch thread of its own (NHDZFetcher), whether or not  *)
(* it gets the port, so that a second one imports everything twice.        *)
(***************************************************************************)
EXTENDS Naturals, FiniteSets

CONSTANTS
  Scripts,  \* terminals the script is called from
  Pids,     \* process ids of the machine
  NoPid,    \* no pid file; the empty string that cat then prints
  Overlap   \* whether two calls may run at the same time

ASSUME PidAssumption ==
  NoPid \notin Pids /\ "empty" \notin Pids \cup {NoPid} /\ Overlap \in BOOLEAN

VARIABLES
  pc,       \* what each call of the script does next
  pid,      \* its $pid, or $! in a start
  pidFile,  \* content of the pid file, "empty" while echo opens it, or NoPid
  proc      \* the process table

vars == <<pc, pid, pidFile, proc>>

StartPCs == {"start", "launch", "open", "write"}
StopPCs == {"stop", "cat", "kill", "poll", "rm"}

Init ==
  /\ pc = [s \in Scripts |-> "idle"]
  /\ pid = [s \in Scripts |-> NoPid]
  /\ pidFile = NoPid
  /\ proc = [p \in Pids |-> "free"]

Goto(s, label) == pc' = [pc EXCEPT ![s] = label]

\* The operator calls start or stop; some wait for the last call to end.
Call(s) ==
  /\ pc[s] = "idle"
  /\ Overlap \/ \A q \in Scripts : pc[q] = "idle"
  /\ Goto(s, "start") \/ Goto(s, "stop")
  /\ UNCHANGED <<pid, pidFile, proc>>

------------------------------------------------------------------------------
(* start *)

\* "component '$name' running as process $pid. Stop it first."
StartRefused(s) ==
  /\ pc[s] = "start" /\ pidFile # NoPid
  /\ Goto(s, "idle")
  /\ UNCHANGED <<pid, pidFile, proc>>

StartAllowed(s) ==
  /\ pc[s] = "start" /\ pidFile = NoPid
  /\ Goto(s, "launch")
  /\ UNCHANGED <<pid, pidFile, proc>>

\* nohup java ... &
Launch(s) ==
  /\ pc[s] = "launch"
  /\ \E p \in Pids :
       /\ proc[p] = "free"
       /\ proc' = [proc EXCEPT ![p] = "server"]
       /\ pid' = [pid EXCEPT ![s] = p]
  /\ Goto(s, "open")
  /\ UNCHANGED pidFile

\* echo $! > $SERVER_PID_FILE, in two steps: the shell creates the file, the
\* echo fills it.
OpenPidFile(s) ==
  /\ pc[s] = "open"
  /\ pidFile' = "empty"
  /\ Goto(s, "write")
  /\ UNCHANGED <<pid, proc>>

\* Mutant: the pid written is the script's own, or any other.
WriteOtherPid(s) ==
  /\ pc[s] = "write"
  /\ pidFile' \in Pids
  /\ Goto(s, "idle")
  /\ UNCHANGED <<pid, proc>>

WritePid(s) ==
  /\ pc[s] = "write"
  /\ pidFile' = pid[s]
  /\ Goto(s, "idle")
  /\ UNCHANGED <<pid, proc>>

------------------------------------------------------------------------------
(* stop *)

\* The test for the pid file; cat comes later.
StopChecks(s) ==
  /\ pc[s] = "stop"
  /\ Goto(s, IF pidFile = NoPid THEN "idle" ELSE "cat")
  /\ UNCHANGED <<pid, pidFile, proc>>

\* Mutant: the words of an echo that is under way are taken for the pid.
CatPidRaw(s) ==
  /\ pc[s] = "cat"
  /\ pid' = [pid EXCEPT ![s] = pidFile]
  /\ Goto(s, "kill")
  /\ UNCHANGED <<pidFile, proc>>

\* $pid is empty if the file is, or is gone by now.
CatPid(s) ==
  /\ pc[s] = "cat"
  /\ pid' = [pid EXCEPT ![s] = IF pidFile \in Pids THEN pidFile ELSE NoPid]
  /\ Goto(s, "kill")
  /\ UNCHANGED <<pidFile, proc>>

\* SIGTERM to whatever has that pid now; an error of kill is not looked at, and
\* whether an unrelated process ends of it is left to Reuse.
KillPid(s) ==
  /\ pc[s] = "kill"
  /\ proc' = [p \in Pids |->
       IF p = pid[s] /\ proc[p] = "server" THEN "leaving" ELSE proc[p]]
  /\ Goto(s, "poll")
  /\ UNCHANGED <<pid, pidFile>>

\* Mutant: the loop does not wait.
PollOnce(s) ==
  /\ pc[s] = "poll"
  /\ Goto(s, "rm")
  /\ UNCHANGED <<pid, pidFile, proc>>

\* Mutant: the test of the loop is turned round.
PollWhileFree(s) ==
  /\ pc[s] = "poll"
  /\ \E p \in Pids : p = pid[s] /\ proc[p] = "leaving"
  /\ Goto(s, "rm")
  /\ UNCHANGED <<pid, pidFile, proc>>

\* The loop ends once ps lists no process of that pid; no line matches an
\* empty one.
PollGone(s) ==
  /\ pc[s] = "poll"
  /\ \A p \in Pids : p = pid[s] => proc[p] = "free"
  /\ Goto(s, "rm")
  /\ UNCHANGED <<pid, pidFile, proc>>

RemovePidFile(s) ==
  /\ pc[s] = "rm"
  /\ pidFile' = NoPid
  /\ Goto(s, "idle")
  /\ UNCHANGED <<pid, proc>>

------------------------------------------------------------------------------
(* The machine.                                                            *)

\* A server that got SIGTERM runs its shutdown hook and ends.
Leave(p) ==
  /\ proc[p] = "leaving"
  /\ proc' = [proc EXCEPT ![p] = "free"]
  /\ UNCHANGED <<pc, pid, pidFile>>

\* A server crashes, or is killed past the script.
Crash(p) ==
  /\ proc[p] = "server"
  /\ proc' = [proc EXCEPT ![p] = "free"]
  /\ UNCHANGED <<pc, pid, pidFile>>

\* Unrelated processes come and go, with the pids that are free.
Reuse(p) ==
  /\ proc[p] \in {"free", "other"}
  /\ proc' = [proc EXCEPT ![p] = IF @ = "free" THEN "other" ELSE "free"]
  /\ UNCHANGED <<pc, pid, pidFile>>

Run(s) ==
  \/ StartRefused(s) \/ StartAllowed(s) \/ Launch(s) \/ OpenPidFile(s) \/ WritePid(s)
  \/ StopChecks(s) \/ CatPid(s) \/ KillPid(s) \/ PollGone(s) \/ RemovePidFile(s)

Next ==
  \/ \E s \in Scripts : Call(s) \/ Run(s)
  \/ \E p \in Pids : Leave(p) \/ Crash(p) \/ Reuse(p)

Spec == Init /\ [][Next]_vars

\* A script that can go on does, and a server that got SIGTERM ends.
FairSpec ==
  /\ Spec
  /\ \A s \in Scripts : WF_vars(Run(s))
  /\ \A p \in Pids : WF_vars(Leave(p))

------------------------------------------------------------------------------
(* Properties.                                                             *)

\* Type correctness of the scripts, the pid file and the process table.
TypeOK ==
  /\ pc \in [Scripts -> {"idle"} \cup StartPCs \cup StopPCs]
  /\ pid \in [Scripts -> Pids \cup {NoPid}]
  /\ pidFile \in Pids \cup {NoPid, "empty"}
  /\ proc \in [Pids -> {"free", "server", "leaving", "other"}]

Servers == {p \in Pids : proc[p] \in {"server", "leaving"}}

\* Never two JVMs, whatever crashes and whoever gets the old pid: the next
\* fetch thread starts when the last is gone.  True of one call of the script
\* at a time only.
AtMostOneServer == Cardinality(Servers) <= 1

\* And no JVM is out of reach of stop: its pid is in the file, or a start is
\* about to write it.
EveryServerHasPidFile ==
  \A p \in Servers :
    pidFile = p \/ \E s \in Scripts : pc[s] \in {"open", "write"} /\ pid[s] = p

\* What the script relies on between two of its steps when no other runs: the
\* inductive invariant behind the two properties above.
SerialInv ==
  /\ TypeOK
  /\ \A s, q \in Scripts : pc[s] # "idle" /\ pc[q] # "idle" => s = q
  /\ EveryServerHasPidFile
  /\ (\A s \in Scripts : pc[s] # "write") => pidFile # "empty"
  /\ \A s \in Scripts :
       /\ pc[s] \in {"launch", "open"} => pidFile = NoPid
       /\ pc[s] = "write" => pidFile = "empty"
       /\ pc[s] \in {"open", "write"} => pid[s] \in Pids
       /\ pc[s] = "cat" => pidFile \in Pids
       /\ pc[s] \in {"kill", "poll", "rm"} => pidFile \in Pids /\ pid[s] = pidFile
       /\ pc[s] = "rm" => Servers = {}

\* stop ends, unless the pid it waits for went to another process, unrelated or
\* launched by an overlapping start.
StopEnds ==
  \A s \in Scripts :
    (pc[s] = "poll") ~>
      (\/ pc[s] = "idle"
       \/ \E p \in Pids : p = pid[s] /\ proc[p] \in {"other", "server"})

\* What start prints when it refuses: the component runs as that process.
\* False after a crash.
RefusesOnlyIfRunning ==
  [][\A s \in Scripts : StartRefused(s) => pidFile \in Servers]_vars

\* What stop prints: the process it stops is the component.  False once the pid
\* of a crashed server is somebody else's.
StopsOnlyComponent ==
  [][\A s \in Scripts : KillPid(s) => \A p \in Pids : p = pid[s] => proc[p] # "other"]_vars
=============================================================================
