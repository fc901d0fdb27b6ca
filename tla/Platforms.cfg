SPECIFICATION PlatformSpec
INVARIANTS
    UnitHasBinary
    InstallStartsService
    UninstallRemovesService
    JobKeepsPlist
    UninstallEndsJob
