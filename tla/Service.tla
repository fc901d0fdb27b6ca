------------------------------ MODULE Service -------------------------------
(***************************************************************************)
(* Installing and removing runetaled as a systemd service: systemDRecord   *)
(* (Install, Uninstall, Load, Unload, start, Stop) and the commands that   *)
(* use it: `runetaled up`, `daemon install`, `daemon uninstall` and        *)
(* `down`.  One command runs at a time, step by step, and may be killed    *)
(* between any two steps; beside it systemd restarts the service.          *)
(***************************************************************************)

VARIABLES
    unitFile,   \* daemonFilePath exists
    bin,        \* binPath exists
    enabled,    \* the service is linked into multi-user.target
    unit,       \* "inactive", "active", or "restarting" after a failure
    op,         \* the command: "none", "install", "uninstall" or "down"
    pc,         \* where it is; "idle" once it has ended
    result,     \* how it ended: "none", "nil", "error" (returned or, by
                \* down, only printed) or "killed"
    skipped,    \* Install did nothing: the unit file was there
    ran,        \* the service was active when the command began
    steady,     \* the service manager has changed nothing by itself since then
    undeleted   \* the unit file that is there could not be removed

files   == <<unitFile, bin, undeleted>>
command == <<op, pc, result, skipped, ran>>
vars == <<files, enabled, unit, command, steady>>

Run(o, at) ==
    /\ pc = "idle"
    /\ op' = o
    /\ pc' = at
    /\ result' = "none"
    /\ skipped' = FALSE
    /\ ran' = (unit = "active")
    /\ steady' = TRUE
    /\ UNCHANGED <<files, enabled, unit>>

Goto(l) == pc' = l /\ UNCHANGED <<op, result, skipped, ran>>

Return(r) ==
    /\ pc' = "idle"
    /\ result' = r
    /\ UNCHANGED <<op, skipped, ran>>

----------------------------------------------------------------------------
(* Install                                                                 *)

RunInstall == Run("install", "check")

CheckInstalled ==
    /\ pc = "check"
    /\ IF unitFile
          THEN /\ pc' = "idle" /\ result' = "nil" /\ skipped' = TRUE
               /\ UNCHANGED <<op, ran>>
          ELSE Goto("copy")
    /\ UNCHANGED <<files, enabled, unit, steady>>

\* The running executable is copied beside binPath and renamed to it.
CopyBinary ==
    /\ pc = "copy"
    /\ \/ bin' = TRUE /\ Goto("running")
       \/ UNCHANGED bin /\ Return("error")
    /\ UNCHANGED <<unitFile, undeleted, enabled, unit, steady>>

\* A write that fails may leave the file it has created.
WriteUnit ==
    /\ pc = "write"
    /\ \/ unitFile' = TRUE /\ undeleted' = FALSE /\ Goto("load")
       \/ unitFile' \in {unitFile, TRUE} /\ UNCHANGED undeleted /\ Return("error")
    /\ UNCHANGED <<bin, enabled, unit, steady>>

LoadReloadsOnly ==
    /\ pc = "load"
    /\ \/ UNCHANGED enabled /\ Goto("start")
       \/ UNCHANGED enabled /\ Return("error")
    /\ UNCHANGED <<files, unit, steady>>

\* daemon-reload and enable.
Load ==
    /\ pc = "load"
    /\ \/ enabled' = TRUE /\ Goto("start")
       \/ UNCHANGED enabled /\ Return("error")
    /\ UNCHANGED <<files, unit, steady>>

Start ==
    /\ pc = "start"
    /\ \/ unit # "active" /\ unit' = "active" /\ Return("nil")
       \/ UNCHANGED unit /\ Return("error")
    /\ UNCHANGED <<files, enabled, steady>>

----------------------------------------------------------------------------
(* Uninstall, by itself or in the middle of Install                        *)

RunUninstall == Run("uninstall", "running")

UninstallReturns(r) == IF op = "install" /\ r = "nil" THEN Goto("write") ELSE Return(r)

\* A service that waits for its restart counts as not running.
CheckRunning ==
    /\ pc = "running"
    /\ Goto(IF unit = "active" THEN "unload" ELSE "removeUnit")
    /\ UNCHANGED <<files, enabled, unit, steady>>

UnloadKeepsLink ==
    /\ pc = "unload"
    /\ \/ unitFile /\ unit = "active" /\ UNCHANGED enabled /\ Goto("stop")
       \/ UNCHANGED enabled /\ UninstallReturns("error")
    /\ UNCHANGED <<files, unit, steady>>

Unload ==
    /\ pc = "unload"
    /\ \/ unitFile /\ unit = "active" /\ enabled' = FALSE /\ Goto("stop")
       \/ UNCHANGED enabled /\ UninstallReturns("error")
    /\ UNCHANGED <<files, unit, steady>>

Stop ==
    /\ pc = "stop"
    /\ \/ unitFile /\ unit = "active" /\ unit' = "inactive" /\ Goto("removeUnit")
       \/ UNCHANGED unit /\ UninstallReturns("error")
    /\ UNCHANGED <<files, enabled, steady>>

RemoveBinFirst ==
    /\ pc = "removeUnit"
    /\ bin' = FALSE
    /\ Goto("removeBin")
    /\ UNCHANGED <<unitFile, undeleted, enabled, unit, steady>>

\* An error other than "does not exist" is overwritten by the next call's.
RemoveUnitFile ==
    /\ pc = "removeUnit"
    /\ \/ ~unitFile /\ UninstallReturns("nil") /\ UNCHANGED <<unitFile, undeleted>>
       \/ unitFile /\ unitFile' = FALSE /\ undeleted' = FALSE /\ Goto("removeBin")
       \/ unitFile /\ undeleted' = TRUE /\ Goto("removeBin") /\ UNCHANGED unitFile
    /\ UNCHANGED <<bin, enabled, unit, steady>>

RemoveBinary ==
    /\ pc = "removeBin"
    /\ \/ bin' = FALSE /\ UninstallReturns("nil")
       \/ bin /\ UNCHANGED bin /\ UninstallReturns("error")
    /\ UNCHANGED <<unitFile, undeleted, enabled, unit, steady>>

----------------------------------------------------------------------------
(* down: Status, then NewConf, which fails                                 *)

RunDown == Run("down", "status")

DownStatus ==
    /\ pc = "status"
    /\ IF unitFile /\ unit = "active" THEN Goto("conf") ELSE Return("nil")
    /\ UNCHANGED <<files, enabled, unit, steady>>

\* The flags are bound to upArgs and NewConf gets downArgs, whose ports nobody
\* sets: it dials port 0, blocking, until its context times out.  The command
\* prints the error and ends before Rcn.Stop and Uninstall.
DownConf ==
    /\ pc = "conf"
    /\ Return("error")
    /\ UNCHANGED <<files, enabled, unit, steady>>

KillCommand ==
    /\ pc # "idle"
    /\ Return("killed")
    /\ UNCHANGED <<files, enabled, unit, steady>>

----------------------------------------------------------------------------
(* systemd                                                                 *)

\* Restart=on-failure; an exit with code 0 is not a failure.
ServiceEnds ==
    /\ unit = "active"
    /\ unit' \in {"restarting", "inactive"}
    /\ steady' = FALSE
    /\ UNCHANGED <<files, enabled, command>>

ServiceRestarts ==
    /\ unit = "restarting"
    /\ bin
    /\ unit' = "active"
    /\ steady' = FALSE
    /\ UNCHANGED <<files, enabled, command>>

\* The machine boots: whatever command was running is gone.
Reboot ==
    /\ unit' = IF enabled /\ unitFile /\ bin THEN "active" ELSE "inactive"
    /\ steady' = FALSE
    /\ pc' = "idle"
    /\ result' = IF pc = "idle" THEN result ELSE "killed"
    /\ UNCHANGED <<files, enabled, op, skipped, ran>>

----------------------------------------------------------------------------
Init ==
    /\ unitFile = FALSE
    /\ bin = FALSE
    /\ enabled = FALSE
    /\ unit = "inactive"
    /\ op = "none"
    /\ pc = "idle"
    /\ result = "none"
    /\ skipped = FALSE
    /\ ran = FALSE
    /\ steady = TRUE
    /\ undeleted = FALSE

InstallStep == RunInstall \/ CheckInstalled \/ CopyBinary \/ WriteUnit \/ Load \/ Start

UninstallStep ==
    RunUninstall \/ CheckRunning \/ Unload \/ Stop \/ RemoveUnitFile \/ RemoveBinary

DownStep == RunDown \/ DownStatus \/ DownConf

Next ==
    \/ InstallStep
    \/ UninstallStep
    \/ DownStep
    \/ KillCommand
    \/ ServiceEnds
    \/ ServiceRestarts
    \/ Reboot

Spec == Init /\ [][Next]_vars

----------------------------------------------------------------------------
InstallPoints   == {"check", "copy", "write", "load", "start"}
UninstallPoints == {"running", "loaded", "unload", "stop", "removeUnit", "removeBin"}
DownPoints      == {"status", "conf"}

TypeOK ==
    /\ unitFile \in BOOLEAN
    /\ bin \in BOOLEAN
    /\ enabled \in BOOLEAN
    /\ unit \in {"inactive", "active", "restarting"}
    /\ op \in {"none", "install", "uninstall", "down"}
    /\ pc \in {"idle"} \cup InstallPoints \cup UninstallPoints \cup DownPoints
    /\ result \in {"none", "nil", "error", "killed"}
    /\ skipped \in BOOLEAN
    /\ ran \in BOOLEAN
    /\ steady \in BOOLEAN
    /\ undeleted \in BOOLEAN

\* The unit file never names a binary that is not there, wherever a command
\* is killed or fails: Install renames the binary into place before it writes
\* the unit, Uninstall removes the unit first.  The exception is a unit file
\* that could not be removed, an error Uninstall forgets.
UnitHasBinary == unitFile => bin \/ undeleted

\* An Install that returns nil has enabled and started the service, unless it
\* stopped at a unit file an earlier Install left, however far that one got.
InstallStartsService ==
    op = "install" /\ result = "nil" /\ ~skipped /\ steady
        => unitFile /\ bin /\ enabled /\ unit = "active"

\* An Uninstall that returns nil has removed the unit file, in whatever state
\* killed and failed commands had left the service, so that the next Install
\* does not stop at it; and no service runs, a running one is disabled and its
\* binary gone, provided that the manager did not stop or restart it in
\* between.  The exception is a unit file that could not be removed.
UninstallRemovesService ==
    op = "uninstall" /\ result = "nil" /\ ~undeleted =>
        /\ ~unitFile
        /\ steady => unit # "active"
        /\ ran /\ steady => ~bin /\ ~enabled /\ unit = "inactive"

\* After `down` has run to its end, no service is left running; its comment
\* says "uninstall runetaled and delete wireguard interface".
DownEndsService ==
    op = "down" /\ pc = "idle" /\ result # "killed" /\ steady => unit # "active"
=============================================================================
