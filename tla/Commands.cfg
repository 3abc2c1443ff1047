\* The commands on each other's files, with two faults.
CONSTANTS
  Files <- MCFiles
  Backup <- MCBackup
  Requests <- MCRequests
  Cubins <- MCCubins
  Stores <- MCStores
  Absent = Absent
  Cut = Cut
  MaxFaults = 2
  Format <- MCFormat
  Jobs <- MCJobs
  Built <- MCBuilt
SPECIFICATION FairCommands
INVARIANTS WrittenIsClosed InputSurvives FailedLeavesNoOutput PreviousIsBackup KeepDirAsFound SaveCleansUp
PROPERTIES RetrySucceeds
