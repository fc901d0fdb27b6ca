----------------------------- MODULE Platforms ------------------------------
(***************************************************************************)
(* newDaemon picks the record of the platform: systemd, launchd, or one of *)
(* the records for upstart and System V, whose methods do nothing.         *)
(***************************************************************************)
EXTENDS Launchd

VARIABLE platform

\* Install and Uninstall of an upstartRecord or a systemVRecord return nil.
StubInstall ==
    /\ op' = "install"
    /\ result' = "nil"
    /\ skipped' = TRUE
    /\ UNCHANGED <<pc, ran>>

StubUninstall ==
    /\ op' = "uninstall"
    /\ result' = "nil"
    /\ UNCHANGED <<pc, skipped, ran>>

\* Status answers false, so down has nothing to do.
StubDown ==
    /\ op' = "down"
    /\ result' = "nil"
    /\ UNCHANGED <<pc, skipped, ran>>

StubNext == (StubInstall \/ StubUninstall \/ StubDown) /\ UNCHANGED <<files, enabled, unit, steady>>

newDaemon == platform \in {"systemd", "launchd", "stub"}

PlatformInit == Init /\ newDaemon

PlatformNext ==
    /\ \/ platform = "systemd" /\ Next
       \/ platform = "launchd" /\ JobNext
       \/ platform = "stub" /\ StubNext
    /\ UNCHANGED platform

PlatformSpec == PlatformInit /\ [][PlatformNext]_<<vars, platform>>

----------------------------------------------------------------------------
\* Whatever launchd has loaded has its plist: Stop and unload, which refuse to
\* work without it, can always take the job back, also after a command was
\* killed or failed halfway.
JobKeepsPlist == platform = "launchd" /\ enabled => unitFile

\* On darwin an Uninstall that returns nil leaves no job and no process,
\* although KeepAlive starts the process again right after Stop, unless the
\* plist could not be removed and the machine has loaded it again.
UninstallEndsJob ==
    platform = "launchd" /\ op = "uninstall" /\ result = "nil" /\ ~undeleted
        => ~unitFile /\ ~enabled /\ unit = "inactive"
=============================================================================
