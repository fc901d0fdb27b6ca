------------------------------ MODULE Launchd -------------------------------
(***************************************************************************)
(* The same commands on darwin: daemon (Install, Uninstall, load, unload,  *)
(* Stop, Status) and launchd.  unitFile is the plist, enabled says that    *)
(* launchd has loaded the job, and unit is the job's process, which        *)
(* KeepAlive starts again whenever it ends.                                *)
(***************************************************************************)
EXTENDS Service

\* Install removes what is there before it copies and writes.
RunJobInstall == Run("install", "loaded")

RunJobUninstall == Run("uninstall", "loaded")

JobUninstallReturns(r) == IF op = "install" /\ r = "nil" THEN Goto("copy") ELSE Return(r)

\* isRunnning is true of every job that launchd lists, with a process or not.
CheckLoaded ==
    /\ pc = "loaded"
    /\ Goto(IF enabled THEN "stop" ELSE "removeUnit")
    /\ UNCHANGED <<files, enabled, unit, steady>>

\* launchctl stop tells the process to end; KeepAlive will start another one.
StopJob ==
    /\ pc = "stop"
    /\ \/ /\ unitFile /\ enabled
          /\ unit' \in IF unit = "active" THEN {"active", "restarting"} ELSE {unit}
          /\ Goto("unload")
       \/ UNCHANGED unit /\ JobUninstallReturns("error")
    /\ UNCHANGED <<files, enabled, steady>>

StopJobOnly ==
    /\ pc = "unload"
    /\ Goto("removeUnit")
    /\ UNCHANGED <<files, enabled, unit, steady>>

\* launchctl unload forgets the job and ends its process.
UnloadJob ==
    /\ pc = "unload"
    /\ \/ unitFile /\ enabled /\ enabled' = FALSE /\ unit' = "inactive" /\ Goto("removeUnit")
       \/ UNCHANGED <<enabled, unit>> /\ JobUninstallReturns("error")
    /\ UNCHANGED <<files, steady>>

\* An error other than "does not exist" is overwritten by the next call's.
RemovePlist ==
    /\ pc = "removeUnit"
    /\ \/ ~unitFile /\ JobUninstallReturns("nil") /\ UNCHANGED <<unitFile, undeleted>>
       \/ unitFile /\ unitFile' = FALSE /\ undeleted' = FALSE /\ Goto("removeBin")
       \/ unitFile /\ undeleted' = TRUE /\ Goto("removeBin") /\ UNCHANGED unitFile
    /\ UNCHANGED <<bin, enabled, unit, steady>>

RemoveJobBinary ==
    /\ pc = "removeBin"
    /\ \/ bin' = FALSE /\ JobUninstallReturns("nil")
       \/ bin /\ UNCHANGED bin /\ JobUninstallReturns("error")
    /\ UNCHANGED <<unitFile, undeleted, enabled, unit, steady>>

CopyJobBinary ==
    /\ pc = "copy"
    /\ \/ bin' = TRUE /\ Goto("write")
       \/ UNCHANGED bin /\ Return("error")
    /\ UNCHANGED <<unitFile, undeleted, enabled, unit, steady>>

\* A write that fails may leave the file it has created.
WritePlist ==
    /\ pc = "write"
    /\ \/ unitFile' = TRUE /\ undeleted' = FALSE /\ Goto("load")
       \/ unitFile' \in {unitFile, TRUE} /\ UNCHANGED undeleted /\ Return("error")
    /\ UNCHANGED <<bin, enabled, unit, steady>>

\* launchctl load; RunAtLoad starts the process.
LoadJob ==
    /\ pc = "load"
    /\ \/ enabled' = TRUE /\ unit' = "active" /\ Return("nil")
       \/ UNCHANGED <<enabled, unit>> /\ Return("error")
    /\ UNCHANGED <<files, steady>>

JobStatus ==
    /\ pc = "status"
    /\ IF unitFile /\ enabled THEN Goto("conf") ELSE Return("nil")
    /\ UNCHANGED <<files, enabled, unit, steady>>

----------------------------------------------------------------------------
(* launchd                                                                 *)

JobEnds ==
    /\ unit = "active"
    /\ unit' = "restarting"
    /\ steady' = FALSE
    /\ UNCHANGED <<files, enabled, command>>

JobRestarts ==
    /\ unit = "restarting"
    /\ enabled /\ bin
    /\ unit' = "active"
    /\ steady' = FALSE
    /\ UNCHANGED <<files, enabled, command>>

\* At boot launchd loads every plist that is there.
Boot ==
    /\ enabled' = unitFile
    /\ unit' = CASE unitFile /\ bin -> "active"
                 [] unitFile /\ ~bin -> "restarting"
                 [] OTHER -> "inactive"
    /\ steady' = FALSE
    /\ pc' = "idle"
    /\ result' = IF pc = "idle" THEN result ELSE "killed"
    /\ UNCHANGED <<files, op, skipped, ran>>

----------------------------------------------------------------------------
JobUninstallStep ==
    RunJobUninstall \/ CheckLoaded \/ StopJob \/ UnloadJob \/ RemovePlist \/ RemoveJobBinary

JobInstallStep == RunJobInstall \/ CopyJobBinary \/ WritePlist \/ LoadJob

JobNext ==
    \/ JobInstallStep
    \/ JobUninstallStep
    \/ RunDown \/ JobStatus \/ DownConf
    \/ KillCommand
    \/ JobEnds
    \/ JobRestarts
    \/ Boot
=============================================================================
