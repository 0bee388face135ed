-------------------------- MODULE DeploymentProofs --------------------------
(* What holds of script and JVMs together, for any number of terminals and  *)
(* pids.                                                                    *)
EXTENDS Deployment, FiniteSetTheorems, TLAPS

Proved == INSTANCE ServerDaemonProofs

------------------------------------------------------------------------------
(* The JVMs, however the script is called.                                  *)

LEMMA InitJvmInv == Init => JvmInv
  BY PidAssumption
     DEF Init, Script!Init, JVM!Init, JvmInv, JVM!JvmInv, JVM!JvmTypeOK, JVM!InOrder, JVM!MainPCs,
         JVM!Alive

LEMMA MainKeepsJvmInv ==
  ASSUME JvmInv, NEW p \in Pids, MainStep(p)
  PROVE  JvmInv'
<1> USE PidAssumption
    DEF JvmInv, JVM!JvmInv, JVM!JvmTypeOK, JVM!InOrder, JVM!MainPCs, JVM!Alive, JVM!At,
        JVM!Goto, MainStep, scriptVars
<1>1. CASE JVM!InitServer(p) \/ JVM!SpringReady(p) \/ JVM!SpringFails(p)
  BY <1>1 DEF JVM!InitServer, JVM!SpringReady, JVM!SpringFails
<1>2. CASE JVM!LoadProps(p) \/ JVM!ListenerFails(p)
  BY <1>2 DEF JVM!LoadProps, JVM!ListenerFails
<1>3. CASE JVM!StartFetch(p) \/ JVM!SwitchOff(p)
  BY <1>3 DEF JVM!StartFetch, JVM!SwitchOff
<1>4. CASE JVM!OpenPort(p) \/ JVM!PortTaken(p)
  BY <1>4 DEF JVM!OpenPort, JVM!PortTaken
<1> QED
  BY <1>1, <1>2, <1>3, <1>4 DEF JVM!MainStep

LEMMA OthersKeepJvmInv ==
  ASSUME JvmInv, NEW p \in Pids, FetchStep(p) \/ HookStep(p) \/ Stranger(p)
  PROVE  JvmInv'
<1> USE PidAssumption
    DEF JvmInv, JVM!JvmInv, JVM!JvmTypeOK, JVM!InOrder, JVM!MainPCs, JVM!Alive, JVM!At,
        scriptVars
<1>1. CASE FetchStep(p)
  BY <1>1 DEF FetchStep, JVM!FetchStep, JVM!GetBean
<1>2. CASE HookStep(p)
  BY <1>2 DEF HookStep, JVM!HookStep, JVM!HookSkips, JVM!ClosePort, JVM!CloseContext
<1>3. CASE Stranger(p)
  BY <1>3 DEF Stranger, JVM!Stranger
<1> QED
  BY <1>1, <1>2, <1>3

LEMMA MachineKeepsJvmInv ==
  ASSUME JvmInv, Script!TypeOK, NEW p \in Pids, Leave(p) \/ Crash(p) \/ Reuse(p)
  PROVE  JvmInv'
<1> USE PidAssumption
    DEF JvmInv, JVM!JvmInv, JVM!JvmTypeOK, JVM!InOrder, JVM!MainPCs, JVM!Alive, JVM!Halt,
        Script!TypeOK
<1>1. CASE Leave(p)
  BY <1>1 DEF Leave, Script!Leave
<1>2. CASE Crash(p)
  BY <1>2 DEF Crash, Script!Crash
<1>3. CASE Reuse(p)
  BY <1>3 DEF Reuse, Script!Reuse
<1> QED
  BY <1>1, <1>2, <1>3

LEMMA ScriptKeepsJvmInv ==
  ASSUME JvmInv, Script!TypeOK, NEW s \in Scripts, Call(s) \/ ScriptStep(s) \/ Launch(s)
  PROVE  JvmInv'
<1> USE DEF JvmInv, JVM!JvmInv, JVM!JvmTypeOK, JVM!InOrder, JVM!MainPCs, JVM!Alive,
            Script!TypeOK
<1>1. CASE Launch(s)
  BY <1>1, PidAssumption DEF Launch, Script!Launch, JVM!Begin, JVM!At, JVM!Goto
<1>2. CASE ScriptStep(s) /\ Script!KillPid(s)
  BY <1>2 DEF ScriptStep, Script!KillPid, jvmVars
<1>3. CASE proc' = proc /\ UNCHANGED jvmVars
  BY <1>3 DEF jvmVars
<1>4. Call(s) \/ (ScriptStep(s) /\ ~Script!KillPid(s)) => proc' = proc /\ UNCHANGED jvmVars
  BY DEF Call, Script!Call, ScriptStep, Script!StartRefused, Script!StartAllowed,
         Script!OpenPidFile, Script!WritePid, Script!StopChecks, Script!CatPid,
         Script!PollGone, Script!RemovePidFile
<1>5. CASE Call(s) \/ (ScriptStep(s) /\ ~Script!KillPid(s))
  BY <1>3, <1>4, <1>5
<1> QED
  BY <1>1, <1>2, <1>5

------------------------------------------------------------------------------
(* The script does not notice what JVMs do.                                 *)

LEMMA StepIsScriptStep == [Next]_vars => [Script!Next]_Script!vars
<1> SUFFICES ASSUME [Next]_vars PROVE [Script!Next]_Script!vars
  OBVIOUS
<1>1. ASSUME NEW s \in Scripts, Call(s) \/ ScriptStep(s) \/ Launch(s)
      PROVE  Script!Next
  BY <1>1 DEF Call, ScriptStep, Launch, Script!Next, Script!Run
<1>2. ASSUME NEW p \in Pids, Leave(p) \/ Crash(p) \/ Reuse(p)
      PROVE  Script!Next
  BY <1>2 DEF Leave, Crash, Reuse, Script!Next
<1>3. ASSUME NEW p \in Pids, MainStep(p) \/ FetchStep(p) \/ HookStep(p) \/ Stranger(p)
      PROVE  UNCHANGED Script!vars
  BY <1>3 DEF MainStep, FetchStep, HookStep, Stranger, scriptVars, Script!vars
<1>4. CASE UNCHANGED vars
  BY <1>4 DEF vars, scriptVars, Script!vars
<1> QED
  BY <1>1, <1>2, <1>3, <1>4 DEF Next

\* The composition implements the script's specification: a JVM in any state of
\* its start or its hook is a process to server-daemon.sh, and no more.
THEOREM ImplementsScript == Spec => Script!Spec
  BY StepIsScriptStep, PTL DEF Spec, Init, Script!Spec

\* Script and Proved are instances of one module.
LEMMA SameSpec == Script!Spec => Proved!Spec
<1>1. Script!Init => Proved!Init
  BY DEF Script!Init, Proved!Init
<1>2. [Script!Next]_Script!vars => [Proved!Next]_Proved!vars
  BY
     DEF Script!Init, Proved!Init, Script!Next, Proved!Next, Script!vars,
         Proved!vars, Script!Call, Proved!Call, Script!Run, Proved!Run,
         Script!Goto, Proved!Goto, Script!StartRefused, Proved!StartRefused,
         Script!StartAllowed, Proved!StartAllowed, Script!Launch,
         Proved!Launch, Script!OpenPidFile, Proved!OpenPidFile,
         Script!WritePid, Proved!WritePid, Script!StopChecks,
         Proved!StopChecks, Script!CatPid, Proved!CatPid, Script!KillPid,
         Proved!KillPid, Script!PollGone, Proved!PollGone,
         Script!RemovePidFile, Proved!RemovePidFile, Script!Leave,
         Proved!Leave, Script!Crash, Proved!Crash, Script!Reuse, Proved!Reuse
<1> QED
  BY <1>1, <1>2, PTL DEF Script!Spec, Proved!Spec

LEMMA ScriptTypes == Spec => []Script!TypeOK
<1>1. Proved!Spec => []Proved!TypeOK
  BY PidAssumption, Proved!TypeCorrect
<1>2. Proved!TypeOK => Script!TypeOK
  BY DEF Proved!TypeOK, Script!TypeOK, Proved!StartPCs, Script!StartPCs,
         Proved!StopPCs, Script!StopPCs
<1> QED
  BY <1>1, <1>2, ImplementsScript, SameSpec, PTL

\* The life cycle of ServerStarter, FioraListener and FetchTask, for every way
\* the script is called.
THEOREM JvmInvariance == Spec => []JvmInv
<1>1. JvmInv /\ Script!TypeOK /\ [Next]_vars => JvmInv'
  <2> SUFFICES ASSUME JvmInv, Script!TypeOK, [Next]_vars PROVE JvmInv'
    OBVIOUS
  <2>1. CASE UNCHANGED vars
    BY <2>1 DEF vars, scriptVars, jvmVars, JvmInv, JVM!JvmInv, JVM!JvmTypeOK, JVM!InOrder,
                JVM!Alive
  <2> QED
    BY <2>1, MainKeepsJvmInv, OthersKeepJvmInv, MachineKeepsJvmInv, ScriptKeepsJvmInv
       DEF Next
<1> QED
  BY <1>1, InitJvmInv, ScriptTypes, PTL DEF Spec

\* Fetch thread and requests find the properties and the Spring context there.
THEOREM ConfigIsThere == Spec => []ConfigBeforeUse
<1>1. JvmInv => ConfigBeforeUse
  BY DEF JvmInv, JVM!JvmInv, JVM!InOrder, ConfigBeforeUse
<1> QED
  BY <1>1, JvmInvariance, PTL

\* A fetch thread that dies before its first pass is one of a JVM being stopped.
THEOREM ImportersLive == Spec => []ImporterLives
<1>1. JvmInv => ImporterLives
  BY DEF JvmInv, JVM!JvmInv, JVM!InOrder, ImporterLives
<1> QED
  BY <1>1, JvmInvariance, PTL

------------------------------------------------------------------------------
(* One call of the script at a time.                                        *)

LEMMA SameServer ==
  ASSUME ~Overlap
  PROVE  Spec => [](\A p, q \in Script!Servers : p = q)
<1>1. Proved!Spec => [](\A p, q \in Proved!Servers : p = q)
  BY PidAssumption, Proved!SameServer
<1>2. (\A p, q \in Proved!Servers : p = q) => \A p, q \in Script!Servers : p = q
  BY DEF Proved!Servers, Script!Servers
<1> QED
  BY <1>1, <1>2, ImplementsScript, SameSpec, PTL

\* With the script called by one terminal at a time there is one JVM at most,
\* wherever in its life it is.
THEOREM OneServer ==
  ASSUME ~Overlap
  PROVE  Spec => []AtMostOneServer
<1>1. ASSUME \A p, q \in Script!Servers : p = q PROVE AtMostOneServer
  <2>1. CASE Script!Servers = {}
    BY <2>1, FS_EmptySet DEF AtMostOneServer
  <2>2. CASE Script!Servers # {}
    <3>1. PICK p : Script!Servers = {p}
      BY <1>1, <2>2
    <3>2. Cardinality({p}) = 1
      BY FS_Singleton
    <3> QED
      BY <3>1, <3>2 DEF AtMostOneServer
  <2> QED
    BY <2>1, <2>2
<1> QED
  BY <1>1, SameServer, PTL

\* Nor is a JVM ever out of reach of the script's stop.
THEOREM ServersHavePidFile ==
  ASSUME ~Overlap
  PROVE  Spec => []EveryServerHasPidFile
<1>1. Proved!Spec => []Proved!EveryServerHasPidFile
  BY PidAssumption, Proved!ServersHavePidFile
<1>2. Proved!EveryServerHasPidFile => EveryServerHasPidFile
  BY DEF Proved!EveryServerHasPidFile, EveryServerHasPidFile, Script!EveryServerHasPidFile,
         Proved!Servers, Script!Servers
<1> QED
  BY <1>1, <1>2, ImplementsScript, SameSpec, PTL

\* ... and a JVM that cannot have the port lost it to a stranger: the port of a
\* JVM that is stopped is free again before the script can launch the next.
THEOREM PortIsOurs ==
  ASSUME ~Overlap
  PROVE  Spec => PortLostToStrangerOnly
<1> DEFINE Lost == \A p \in Pids : JVM!PortTaken(p) => proc[port] = "other"
           Same == \A p, q \in Script!Servers : p = q
<1>1. JvmInv /\ Same => Lost
  <2> SUFFICES ASSUME JvmInv, Same, NEW p \in Pids, JVM!PortTaken(p)
               PROVE  proc[port] = "other"
    OBVIOUS
  <2>1. main[p] = "connect" /\ port \in Pids
    BY DEF JvmInv, JVM!JvmInv, JVM!JvmTypeOK, JVM!PortTaken, JVM!At
  <2>2. p \in Script!Servers
    BY <2>1 DEF JvmInv, JVM!JvmInv, JVM!InOrder, JVM!Alive, Script!Servers
  <2>3. ASSUME main[port] = "up" PROVE FALSE
    <3>1. port \in Script!Servers
      BY <2>1, <2>3 DEF JvmInv, JVM!JvmInv, JVM!InOrder, JVM!Alive, Script!Servers
    <3> QED
      BY <2>1, <2>2, <2>3, <3>1
  <2> QED
    BY <2>1, <2>3 DEF JvmInv, JVM!JvmInv, JVM!InOrder
<1> QED
  BY <1>1, JvmInvariance, SameServer, PTL DEF PortLostToStrangerOnly
=============================================================================
