------------------------- MODULE ServerDaemonProofs -------------------------
(* What server-daemon.sh guarantees if nobody calls it twice at a time, for  *)
(* any number of terminals and pids.                                         *)
EXTENDS ServerDaemon, FiniteSetTheorems, TLAPS

LEMMA NextTypeOK == TypeOK /\ [Next]_vars => TypeOK'
<1> SUFFICES ASSUME TypeOK, [Next]_vars PROVE TypeOK'
  OBVIOUS
<1> USE DEF TypeOK, StartPCs, StopPCs, Goto
<1>1. ASSUME NEW s \in Scripts,
             Call(s) \/ StartRefused(s) \/ StartAllowed(s) \/ Launch(s)
      PROVE  TypeOK'
  BY <1>1 DEF Call, StartRefused, StartAllowed, Launch
<1>2. ASSUME NEW s \in Scripts, OpenPidFile(s) \/ WritePid(s) \/ RemovePidFile(s)
      PROVE  TypeOK'
  BY <1>2 DEF OpenPidFile, WritePid, RemovePidFile
<1>3. ASSUME NEW s \in Scripts,
             StopChecks(s) \/ CatPid(s) \/ KillPid(s) \/ PollGone(s)
      PROVE  TypeOK'
  BY <1>3 DEF StopChecks, CatPid, KillPid, PollGone
<1>4. ASSUME NEW p \in Pids, Leave(p) \/ Crash(p) \/ Reuse(p) PROVE TypeOK'
  BY <1>4 DEF Leave, Crash, Reuse
<1>5. CASE UNCHANGED vars
  BY <1>5 DEF vars
<1> QED
  BY <1>1, <1>2, <1>3, <1>4, <1>5 DEF Next, Run

\* The types of script, pid file and process table, whoever calls the script.
THEOREM TypeCorrect == Spec => []TypeOK
<1>1. Init => TypeOK
  BY DEF Init, TypeOK
<1> QED
  BY <1>1, NextTypeOK, PTL DEF Spec

LEMMA InitSerialInv == Init => SerialInv
  BY PidAssumption
     DEF Init, SerialInv, TypeOK, EveryServerHasPidFile, Servers, StartPCs, StopPCs

LEMMA StartStep ==
  ASSUME SerialInv, NEW s \in Scripts,
         StartRefused(s) \/ StartAllowed(s) \/ Launch(s) \/ OpenPidFile(s) \/ WritePid(s)
  PROVE  SerialInv'
<1> USE PidAssumption
    DEF SerialInv, TypeOK, EveryServerHasPidFile, Servers, StartPCs, StopPCs, Goto
<1>1. CASE StartRefused(s)
  BY <1>1 DEF StartRefused
<1>2. CASE StartAllowed(s)
  BY <1>2 DEF StartAllowed
<1>3. CASE Launch(s)
  BY <1>3 DEF Launch
<1>4. CASE OpenPidFile(s)
  BY <1>4 DEF OpenPidFile
<1>5. CASE WritePid(s)
  BY <1>5 DEF WritePid
<1> QED
  BY <1>1, <1>2, <1>3, <1>4, <1>5

LEMMA StopStep ==
  ASSUME SerialInv, NEW s \in Scripts,
         StopChecks(s) \/ CatPid(s) \/ KillPid(s) \/ PollGone(s) \/ RemovePidFile(s)
  PROVE  SerialInv'
<1> USE PidAssumption
    DEF SerialInv, TypeOK, EveryServerHasPidFile, Servers, StartPCs, StopPCs, Goto
<1>1. CASE StopChecks(s)
  BY <1>1 DEF StopChecks
<1>2. CASE CatPid(s)
  BY <1>2 DEF CatPid
<1>3. CASE KillPid(s)
  BY <1>3 DEF KillPid
<1>4. CASE PollGone(s)
  BY <1>4 DEF PollGone
<1>5. CASE RemovePidFile(s)
  BY <1>5 DEF RemovePidFile
<1> QED
  BY <1>1, <1>2, <1>3, <1>4, <1>5

LEMMA MachineStep ==
  ASSUME SerialInv, NEW p \in Pids, Leave(p) \/ Crash(p) \/ Reuse(p)
  PROVE  SerialInv'
  BY DEF SerialInv, TypeOK, EveryServerHasPidFile, Servers, Leave, Crash, Reuse

LEMMA NextSerialInv == ~Overlap /\ SerialInv /\ [Next]_vars => SerialInv'
<1> SUFFICES ASSUME ~Overlap, SerialInv, [Next]_vars PROVE SerialInv'
  OBVIOUS
<1>1. ASSUME NEW s \in Scripts, Call(s) PROVE SerialInv'
  BY <1>1 DEF Call, Goto, SerialInv, TypeOK, EveryServerHasPidFile, Servers,
              StartPCs, StopPCs
<1>2. ASSUME NEW s \in Scripts, Run(s) PROVE SerialInv'
  BY <1>2, StartStep, StopStep DEF Run
<1>3. ASSUME NEW p \in Pids, Leave(p) \/ Crash(p) \/ Reuse(p) PROVE SerialInv'
  BY <1>3, MachineStep
<1>4. CASE UNCHANGED vars
  BY <1>4 DEF vars, SerialInv, TypeOK, EveryServerHasPidFile, Servers
<1> QED
  BY <1>1, <1>2, <1>3, <1>4 DEF Next

LEMMA SerialInvMeansSameServer ==
  ASSUME SerialInv, NEW p \in Servers, NEW q \in Servers
  PROVE  p = q
  BY PidAssumption DEF SerialInv, EveryServerHasPidFile, Servers

LEMMA SerialInvMeansOneServer == SerialInv => AtMostOneServer
<1> SUFFICES ASSUME SerialInv PROVE AtMostOneServer
  OBVIOUS
<1>1. ASSUME NEW p \in Servers, NEW q \in Servers PROVE p = q
  BY SerialInvMeansSameServer
<1>2. CASE Servers = {}
  BY <1>2, FS_EmptySet DEF AtMostOneServer
<1>3. CASE Servers # {}
  <2>1. PICK p : Servers = {p}
    BY <1>1, <1>3
  <2>2. Cardinality({p}) = 1
    BY FS_Singleton
  <2> QED
    BY <2>1, <2>2 DEF AtMostOneServer
<1> QED
  BY <1>2, <1>3

\* The strengthened invariant of the script, called by one terminal at a time.
THEOREM SerialInvariance ==
  ASSUME ~Overlap
  PROVE  Spec => []SerialInv
<1>1. SerialInv /\ [Next]_vars => SerialInv'
  BY NextSerialInv
<1> QED
  BY <1>1, InitSerialInv, PTL DEF Spec

LEMMA SameServer ==
  ASSUME ~Overlap
  PROVE  Spec => [](\A p, q \in Servers : p = q)
<1>1. SerialInv => \A p, q \in Servers : p = q
  BY SerialInvMeansSameServer
<1> QED
  BY <1>1, SerialInvariance, PTL

\* start after stop, through crashes and reused pids: the JVM with the old fetch
\* thread is gone before server-daemon.sh launches the next.
THEOREM OneServer ==
  ASSUME ~Overlap
  PROVE  Spec => []AtMostOneServer
  BY SerialInvariance, SerialInvMeansOneServer, PTL

\* No JVM that server-daemon.sh launched is out of reach of its stop.
THEOREM ServersHavePidFile ==
  ASSUME ~Overlap
  PROVE  Spec => []EveryServerHasPidFile
<1>1. SerialInv => EveryServerHasPidFile
  BY DEF SerialInv
<1> QED
  BY <1>1, SerialInvariance, PTL
=============================================================================
