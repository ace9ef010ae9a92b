-------------------------- MODULE MCBackupSchedule --------------------------
\* Small instances of BackupSchedule for TLC.
EXTENDS BackupSchedule

CONSTANTS web, worker, all, b1, b2, daily, hourly
=============================================================================
