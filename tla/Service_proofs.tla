--------------------------- MODULE Service_proofs ---------------------------
(***************************************************************************)
(* Proofs for Service, Launchd and Platforms.  The invariants hold because *)
(* of what a command has already done when it reaches a point, and of what *)
(* the service manager cannot have undone since: PathInv, InstallInv and   *)
(* UninstallInv say that for systemd, JobInv for launchd.                  *)
(***************************************************************************)
EXTENDS Platforms, TLAPS

\* Which command is at a point, and which files are there then.
PathInv ==
    /\ pc # "idle" => result = "none"
    /\ pc \in InstallPoints => op = "install"
    /\ pc \in UninstallPoints => op \in {"install", "uninstall"}
    /\ pc \in DownPoints => op = "down"
    /\ pc = "copy" => ~unitFile
    /\ pc \in UninstallPoints \cup {"write"} /\ op = "install" => bin /\ ~unitFile
    /\ pc \in {"stop", "removeBin"} => op = "uninstall"
    /\ pc \in {"load", "start"} => unitFile /\ bin
    /\ pc = "removeBin" => ~unitFile \/ undeleted
    /\ UnitHasBinary

\* Install enables the service before it starts it.
InstallInv ==
    /\ pc = "start" => enabled
    /\ InstallStartsService

\* What Uninstall has done to a service that was running, as long as systemd
\* keeps still, and that nothing starts a service that was not.
UninstallInv ==
    /\ op = "uninstall" /\ steady /\ ~ran => unit # "active"
    /\ op = "uninstall" /\ ran /\ steady =>
          /\ pc \in {"running", "unload", "stop"} => unit = "active"
          /\ pc \in {"stop", "removeUnit", "removeBin"} => ~enabled
          /\ pc \in {"stop", "removeUnit"} => unitFile
          /\ pc \in {"removeUnit", "removeBin"} => unit = "inactive"
    /\ UninstallRemovesService

IInv == PathInv /\ InstallInv /\ UninstallInv

----------------------------------------------------------------------------
\* A step keeps every variable in its type.
LEMMA TypeStep == TypeOK /\ [Next]_vars => TypeOK'
<1> SUFFICES ASSUME TypeOK, [Next]_vars PROVE TypeOK'
  OBVIOUS
<1> USE DEF TypeOK, InstallPoints, UninstallPoints, DownPoints,
            files, command, Run, Goto, Return, UninstallReturns
<1>1. CASE RunInstall
  BY <1>1 DEF RunInstall
<1>2. CASE CheckInstalled
  <2>1. (skipped' = TRUE \/ skipped' = FALSE \/ skipped' = skipped)
    BY <1>2 DEF CheckInstalled
  <2>2. skipped' \in BOOLEAN
    BY <2>1, Zenon
  <2> QED
    BY <1>2, <2>2 DEF CheckInstalled
<1>3. CASE CopyBinary
  <2>1. (bin' = TRUE \/ bin' = FALSE \/ bin' = bin)
    BY <1>3 DEF CopyBinary
  <2>2. bin' \in BOOLEAN
    BY <2>1, Zenon
  <2> QED
    BY <1>3, <2>2 DEF CopyBinary
<1>4. CASE WriteUnit
  <2>1. (unitFile' = TRUE \/ unitFile' = FALSE \/ unitFile' = unitFile) /\ (undeleted' = TRUE \/ undeleted' = FALSE \/ undeleted' = undeleted)
    BY <1>4 DEF WriteUnit
  <2>2. unitFile' \in BOOLEAN /\ undeleted' \in BOOLEAN
    BY <2>1, Zenon
  <2> QED
    BY <1>4, <2>2 DEF WriteUnit
<1>5. CASE Load
  <2>1. (enabled' = TRUE \/ enabled' = FALSE \/ enabled' = enabled)
    BY <1>5 DEF Load
  <2>2. enabled' \in BOOLEAN
    BY <2>1, Zenon
  <2> QED
    BY <1>5, <2>2 DEF Load
<1>6. CASE Start
  BY <1>6 DEF Start
<1>7. CASE RunUninstall
  BY <1>7 DEF RunUninstall
<1>8. CASE CheckRunning
  BY <1>8 DEF CheckRunning
<1>9. CASE Unload
  <2>1. (enabled' = TRUE \/ enabled' = FALSE \/ enabled' = enabled)
    BY <1>9 DEF Unload
  <2>2. enabled' \in BOOLEAN
    BY <2>1, Zenon
  <2> QED
    BY <1>9, <2>2 DEF Unload
<1>10. CASE Stop
  BY <1>10 DEF Stop
<1>11. CASE RemoveUnitFile
  <2>1. (unitFile' = TRUE \/ unitFile' = FALSE \/ unitFile' = unitFile) /\ (undeleted' = TRUE \/ undeleted' = FALSE \/ undeleted' = undeleted)
    BY <1>11 DEF RemoveUnitFile
  <2>2. unitFile' \in BOOLEAN /\ undeleted' \in BOOLEAN
    BY <2>1, Zenon
  <2> QED
    BY <1>11, <2>2 DEF RemoveUnitFile
<1>12. CASE RemoveBinary
  <2>1. (bin' = TRUE \/ bin' = FALSE \/ bin' = bin)
    BY <1>12 DEF RemoveBinary
  <2>2. bin' \in BOOLEAN
    BY <2>1, Zenon
  <2> QED
    BY <1>12, <2>2 DEF RemoveBinary
<1>13. CASE RunDown
  BY <1>13 DEF RunDown
<1>14. CASE DownStatus
  BY <1>14 DEF DownStatus
<1>15. CASE DownConf
  BY <1>15 DEF DownConf
<1>16. CASE KillCommand
  BY <1>16 DEF KillCommand
<1>17. CASE ServiceEnds
  <2>1. (steady' = TRUE \/ steady' = FALSE \/ steady' = steady)
    BY <1>17 DEF ServiceEnds
  <2>2. steady' \in BOOLEAN
    BY <2>1, Zenon
  <2> QED
    BY <1>17, <2>2 DEF ServiceEnds
<1>18. CASE ServiceRestarts
  <2>1. (steady' = TRUE \/ steady' = FALSE \/ steady' = steady)
    BY <1>18 DEF ServiceRestarts
  <2>2. steady' \in BOOLEAN
    BY <2>1, Zenon
  <2> QED
    BY <1>18, <2>2 DEF ServiceRestarts
<1>19. CASE Reboot
  <2>1. (steady' = TRUE \/ steady' = FALSE \/ steady' = steady)
    BY <1>19 DEF Reboot
  <2>2. steady' \in BOOLEAN
    BY <2>1, Zenon
  <2> QED
    BY <1>19, <2>2 DEF Reboot
<1>20. CASE UNCHANGED vars
  BY <1>20 DEF vars
<1> QED
  BY <1>1, <1>2, <1>3, <1>4, <1>5, <1>6, <1>7, <1>8, <1>9, <1>10, <1>11,
     <1>12, <1>13, <1>14, <1>15, <1>16, <1>17, <1>18, <1>19, <1>20 DEF
     Next, InstallStep, UninstallStep, DownStep

----------------------------------------------------------------------------
\* No command has run yet.
LEMMA InitIInv == Init => IInv
  BY DEF Init, IInv, PathInv, InstallInv, UninstallInv, UnitHasBinary, InstallStartsService,
         UninstallRemovesService, InstallPoints, UninstallPoints, DownPoints

\* A step of a command, of systemd or of the machine keeps the invariant.
LEMMA StepIInv == TypeOK /\ IInv /\ [Next]_vars => IInv'
<1> SUFFICES ASSUME TypeOK, IInv, [Next]_vars PROVE IInv'
  OBVIOUS
<1> USE DEF IInv, PathInv, InstallInv, UninstallInv, UnitHasBinary, InstallStartsService,
            UninstallRemovesService, InstallPoints, UninstallPoints, DownPoints,
            files, command, Run, Goto, Return, UninstallReturns
<1>1. CASE RunInstall
  BY <1>1 DEF RunInstall
<1>2. CASE CheckInstalled
  BY <1>2 DEF CheckInstalled
<1>3. CASE CopyBinary
  BY <1>3 DEF CopyBinary
<1>4. CASE WriteUnit
  BY <1>4 DEF WriteUnit
<1>5. CASE Load
  BY <1>5 DEF Load
<1>6. CASE Start
  BY <1>6 DEF Start
<1>7. CASE RunUninstall
  BY <1>7 DEF RunUninstall
<1>8. CASE CheckRunning
  BY <1>8 DEF CheckRunning
<1>9. CASE Unload
  BY <1>9 DEF Unload
<1>10. CASE Stop
  BY <1>10 DEF Stop
<1>11. CASE RemoveUnitFile
  BY <1>11 DEF RemoveUnitFile
<1>12. CASE RemoveBinary
  BY <1>12 DEF RemoveBinary
<1>13. CASE RunDown
  BY <1>13 DEF RunDown
<1>14. CASE DownStatus
  BY <1>14 DEF DownStatus
<1>15. CASE DownConf
  BY <1>15 DEF DownConf
<1>16. CASE KillCommand
  BY <1>16 DEF KillCommand
<1>17. CASE ServiceEnds
  BY <1>17 DEF ServiceEnds
<1>18. CASE ServiceRestarts
  BY <1>18 DEF ServiceRestarts
<1>19. CASE Reboot
  BY <1>19 DEF Reboot
<1>20. CASE UNCHANGED vars
  BY <1>20 DEF vars
<1> QED
  BY <1>1, <1>2, <1>3, <1>4, <1>5, <1>6, <1>7, <1>8, <1>9, <1>10, <1>11,
     <1>12, <1>13, <1>14, <1>15, <1>16, <1>17, <1>18, <1>19, <1>20 DEF
     Next, InstallStep, UninstallStep, DownStep

----------------------------------------------------------------------------
\* What a command on darwin has done when it reaches a point.
JobPathInv ==
    /\ pc # "idle" => result = "none"
    /\ pc \in {"copy", "write", "load"} => op = "install"
    /\ pc \in DownPoints => op = "down"
    /\ pc \in UninstallPoints => op \in {"install", "uninstall"}
    /\ pc \in {"removeUnit", "removeBin", "copy", "write", "load"} => ~enabled
    /\ pc \in {"removeBin", "copy"} => ~unitFile \/ undeleted
    /\ pc \in {"write", "load"} => bin
    /\ pc = "load" => unitFile
    /\ UnitHasBinary

\* A job has its plist, and only a job has a process.
JobManagerInv ==
    /\ enabled => unitFile
    /\ ~enabled => unit = "inactive"

JobResultInv ==
    /\ op = "uninstall" /\ ran /\ steady =>
          /\ pc = "loaded" => enabled
          /\ pc \in {"loaded", "stop", "unload", "removeUnit"} => unitFile
    /\ op = "uninstall" /\ result = "nil" /\ ~undeleted => ~unitFile
    /\ InstallStartsService
    /\ UninstallRemovesService

JobInv == JobPathInv /\ JobManagerInv /\ JobResultInv

\* Where the record is a stub, nothing is ever installed.
StubInv == ~unitFile /\ ~enabled /\ unit = "inactive" /\ ~ran /\ pc = "idle" /\ (op = "install" => skipped)

PlatformInv ==
    /\ platform \in {"systemd", "launchd", "stub"}
    /\ platform = "systemd" => IInv
    /\ platform = "launchd" => JobInv
    /\ platform = "stub" => StubInv

\* A step on darwin keeps every variable in its type.
LEMMA TypeJobStep == TypeOK /\ JobNext => TypeOK'
<1> SUFFICES ASSUME TypeOK, JobNext PROVE TypeOK'
  OBVIOUS
<1> USE DEF TypeOK, InstallPoints, UninstallPoints, DownPoints,
            files, command, Run, Goto, Return, JobUninstallReturns
<1>1. CASE RunJobInstall \/ RunJobUninstall \/ RunDown
  BY <1>1 DEF RunJobInstall, RunJobUninstall, RunDown
<1>2. CASE CheckLoaded \/ JobStatus \/ DownConf \/ KillCommand
  BY <1>2 DEF CheckLoaded, JobStatus, DownConf, KillCommand
<1>3. CASE StopJob
  BY <1>3 DEF StopJob
<1>4. CASE UnloadJob
  <2>1. enabled' = FALSE \/ enabled' = enabled
    BY <1>4 DEF UnloadJob
  <2>2. enabled' \in BOOLEAN
    BY <2>1, Zenon
  <2> QED
    BY <1>4, <2>2 DEF UnloadJob
<1>5. CASE RemovePlist
  <2>1. (unitFile' = FALSE \/ unitFile' = unitFile) /\ (undeleted' = TRUE \/ undeleted' = FALSE \/ undeleted' = undeleted)
    BY <1>5 DEF RemovePlist
  <2>2. unitFile' \in BOOLEAN /\ undeleted' \in BOOLEAN
    BY <2>1, Zenon
  <2> QED
    BY <1>5, <2>2 DEF RemovePlist
<1>6. CASE RemoveJobBinary \/ CopyJobBinary
  <2>1. bin' = TRUE \/ bin' = FALSE \/ bin' = bin
    BY <1>6 DEF RemoveJobBinary, CopyJobBinary
  <2>2. bin' \in BOOLEAN
    BY <2>1, Zenon
  <2> QED
    BY <1>6, <2>2 DEF RemoveJobBinary, CopyJobBinary
<1>7. CASE WritePlist
  <2>1. (unitFile' = TRUE \/ unitFile' = unitFile) /\ (undeleted' = FALSE \/ undeleted' = undeleted)
    BY <1>7 DEF WritePlist
  <2>2. unitFile' \in BOOLEAN /\ undeleted' \in BOOLEAN
    BY <2>1, Zenon
  <2> QED
    BY <1>7, <2>2 DEF WritePlist
<1>8. CASE LoadJob
  <2>1. enabled' = TRUE \/ enabled' = enabled
    BY <1>8 DEF LoadJob
  <2>2. enabled' \in BOOLEAN
    BY <2>1, Zenon
  <2> QED
    BY <1>8, <2>2 DEF LoadJob
<1>9. CASE JobEnds \/ JobRestarts
  <2>1. steady' = FALSE
    BY <1>9 DEF JobEnds, JobRestarts
  <2>2. steady' \in BOOLEAN
    BY <2>1, Zenon
  <2> QED
    BY <1>9, <2>2 DEF JobEnds, JobRestarts
<1>10. CASE Boot
  <2>1. steady' = FALSE /\ enabled' = unitFile
    BY <1>10 DEF Boot
  <2>2. steady' \in BOOLEAN /\ enabled' \in BOOLEAN
    BY <2>1, Zenon
  <2>3. unit' \in {"active", "restarting", "inactive"}
    BY <1>10 DEF Boot
  <2>4. UNCHANGED <<unitFile, bin, undeleted, op, skipped, ran>> /\ pc' = "idle" /\ result' \in {result, "killed"}
    BY <1>10 DEF Boot
  <2> QED
    BY <2>2, <2>3, <2>4
<1> QED
  BY <1>1, <1>2, <1>3, <1>4, <1>5, <1>6, <1>7, <1>8, <1>9, <1>10
  DEF JobNext, JobInstallStep, JobUninstallStep

\* A step of a command on darwin, of launchd or of the machine.
LEMMA StepJobInv == TypeOK /\ JobInv /\ JobNext => JobInv'
<1> SUFFICES ASSUME TypeOK, JobInv, JobNext PROVE JobInv'
  OBVIOUS
<1> USE DEF JobInv, JobPathInv, JobManagerInv, JobResultInv, UnitHasBinary,
            InstallStartsService, UninstallRemovesService, UninstallPoints, DownPoints,
            files, command, Run, Goto, Return, JobUninstallReturns
<1>0. CASE RunJobInstall \/ RunDown
  BY <1>0 DEF RunJobInstall, RunDown
<1>1. CASE RunJobUninstall
  <2>1. ran' => enabled' /\ unitFile'
    BY <1>1 DEF RunJobUninstall
  <2> QED
    BY <1>1, <2>1 DEF RunJobUninstall
<1>2. CASE CheckLoaded
  BY <1>2 DEF CheckLoaded
<1>3. CASE JobStatus \/ DownConf \/ KillCommand
  BY <1>3 DEF JobStatus, DownConf, KillCommand
<1>4. CASE StopJob
  BY <1>4 DEF StopJob
<1>5. CASE UnloadJob
  BY <1>5 DEF UnloadJob
<1>6. CASE RemovePlist
  BY <1>6 DEF RemovePlist
<1>7. CASE RemoveJobBinary
  BY <1>7 DEF RemoveJobBinary
<1>8. CASE CopyJobBinary
  BY <1>8 DEF CopyJobBinary
<1>9. CASE WritePlist
  BY <1>9 DEF WritePlist
<1>10. CASE LoadJob
  BY <1>10 DEF LoadJob
<1>11. CASE JobEnds \/ JobRestarts
  BY <1>11 DEF JobEnds, JobRestarts
<1>12. CASE Boot
  BY <1>12 DEF Boot
<1> QED
  BY <1>0, <1>1, <1>2, <1>3, <1>4, <1>5, <1>6, <1>7, <1>8, <1>9, <1>10, <1>11, <1>12
  DEF JobNext, JobInstallStep, JobUninstallStep

----------------------------------------------------------------------------
\* Every reachable state is typed, on every platform.
THEOREM TypeCorrect == PlatformSpec => []TypeOK
<1>1. PlatformInit => TypeOK
  BY DEF PlatformInit, Init, TypeOK, InstallPoints, UninstallPoints, DownPoints
<1>2. TypeOK /\ [PlatformNext]_<<vars, platform>> => TypeOK'
  <2> SUFFICES ASSUME TypeOK, [PlatformNext]_<<vars, platform>> PROVE TypeOK'
    OBVIOUS
  <2>1. CASE StubNext
    <3>1. skipped' = TRUE \/ skipped' = skipped
      BY <2>1 DEF StubNext, StubInstall, StubUninstall, StubDown
    <3>2. skipped' \in BOOLEAN
      BY <3>1, Zenon DEF TypeOK
    <3> QED
      BY <2>1, <3>2 DEF StubNext, StubInstall, StubUninstall, StubDown, TypeOK, files
  <2>2. CASE Next \/ UNCHANGED vars
    BY <2>2, TypeStep
  <2>3. CASE JobNext
    BY <2>3, TypeJobStep
  <2> QED
    BY <2>1, <2>2, <2>3 DEF PlatformNext
<1> QED
  BY <1>1, <1>2, PTL DEF PlatformSpec

\* The inductive invariant of the platform holds in every reachable state.
THEOREM InductiveInvariant == PlatformSpec => []PlatformInv
<1>1. PlatformInit => PlatformInv
  <2>1. Init => JobInv /\ StubInv
    BY DEF Init, JobInv, JobPathInv, JobManagerInv, JobResultInv, StubInv, UnitHasBinary,
           InstallStartsService, UninstallRemovesService, UninstallPoints, DownPoints
  <2> QED
    BY <2>1, InitIInv DEF PlatformInit, newDaemon, PlatformInv
<1>2. TypeOK /\ PlatformInv /\ [PlatformNext]_<<vars, platform>> => PlatformInv'
  <2> SUFFICES ASSUME TypeOK, PlatformInv, [PlatformNext]_<<vars, platform>>
               PROVE  PlatformInv'
    OBVIOUS
  <2>1. CASE platform = "systemd" /\ Next /\ UNCHANGED platform
    BY <2>1, StepIInv DEF PlatformInv
  <2>2. CASE platform = "launchd" /\ JobNext /\ UNCHANGED platform
    BY <2>2, StepJobInv DEF PlatformInv
  <2>3. CASE platform = "stub" /\ StubNext /\ UNCHANGED platform
    BY <2>3 DEF PlatformInv, StubNext, StubInstall, StubUninstall, StubDown, StubInv, files
  <2>4. CASE UNCHANGED <<vars, platform>>
    <3>1. IInv => IInv'
      BY <2>4, StepIInv
    <3>2. JobInv => JobInv'
      BY <2>4 DEF JobInv, JobPathInv, JobManagerInv, JobResultInv, UnitHasBinary,
         InstallStartsService, UninstallRemovesService, UninstallPoints, DownPoints, vars, files, command
    <3> QED
      BY <2>4, <3>1, <3>2 DEF PlatformInv, StubInv, vars, files, command
  <2> QED
    BY <2>1, <2>2, <2>3, <2>4 DEF PlatformNext
<1> QED
  BY <1>1, <1>2, TypeCorrect, PTL DEF PlatformSpec

\* Whatever is killed when, the unit file or plist names a binary that
\* exists, unless it could not be removed.
THEOREM UnitCorrect == PlatformSpec => []UnitHasBinary
<1>1. PlatformInv => UnitHasBinary
  BY DEF PlatformInv, IInv, PathInv, JobInv, JobPathInv, StubInv, UnitHasBinary
<1> QED
  BY <1>1, InductiveInvariant, PTL

\* A fresh Install that returns nil has enabled and started the service.
THEOREM InstallCorrect == PlatformSpec => []InstallStartsService
<1>1. PlatformInv => InstallStartsService
  BY DEF PlatformInv, IInv, InstallInv, JobInv, JobResultInv, StubInv, InstallStartsService
<1> QED
  BY <1>1, InductiveInvariant, PTL

\* An undisturbed Uninstall that returns nil has removed the service.
THEOREM UninstallCorrect == PlatformSpec => []UninstallRemovesService
<1>1. PlatformInv => UninstallRemovesService
  BY DEF PlatformInv, IInv, UninstallInv, JobInv, JobResultInv, StubInv, UninstallRemovesService
<1> QED
  BY <1>1, InductiveInvariant, PTL

\* launchd never holds a job without its plist.
THEOREM PlistCorrect == PlatformSpec => []JobKeepsPlist
<1>1. PlatformInv => JobKeepsPlist
  BY DEF PlatformInv, JobInv, JobManagerInv, JobKeepsPlist
<1> QED
  BY <1>1, InductiveInvariant, PTL

\* On darwin a nil Uninstall leaves neither job nor process.
THEOREM JobCorrect == PlatformSpec => []UninstallEndsJob
<1>1. PlatformInv => UninstallEndsJob
  BY DEF PlatformInv, JobInv, JobManagerInv, JobResultInv, UninstallEndsJob
<1> QED
  BY <1>1, InductiveInvariant, PTL
=============================================================================
