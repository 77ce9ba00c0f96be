CONSTANTS
    Blocks = 4
    MaxSimultaneous = 2
    MaxFaults = 1
    BackupPlans <- MCBackupPlans
    RestorePlans <- MCRestorePlans
SPECIFICATION Spec
INVARIANTS ReadsAreOwn RestoredIsVersion FailsForCause
PROPERTIES NothingAfterClose JobEnds
CHECK_DEADLOCK FALSE
